---- MODULE Spec2Model ----
(***************************************************************************)
(* A model of the nand2tetris toolchain of this repository:                *)
(*   projects/06/assembler.py      the Hack assembler                      *)
(*   projects/08/vm_translator.py  the VM translator                       *)
(*   projects/11/tokeniser.py      the Jack tokeniser                      *)
(*   projects/11/compiler.py       the Jack compiler                       *)
(* Text is modelled as sequences of one-character strings, so that the     *)
(* string operations of the code (strip, split, slicing, isdigit, int,     *)
(* formatting) are computed rather than assumed.                           *)
(***************************************************************************)
EXTENDS Integers, Sequences, FiniteSets, TLC

VARIABLES
    \* ---- assembler (projects/06/assembler.py, assemble) ----
    asm_source,        \* the source text, already split on '\n'
    asm_pc,            \* position in assemble(): "pass1", "pass2", "done", "error"
    asm_i,             \* index of the next line (pass 1) or instruction (pass 2)
    asm_n,             \* n: the instruction counter of the first pass
    asm_instructions,  \* instructions
    asm_symbols,       \* symbols
    asm_register,      \* register
    asm_result         \* result

asmVars == <<asm_source, asm_pc, asm_i, asm_n, asm_instructions, asm_symbols,
             asm_register, asm_result>>

VARIABLES
    \* ---- VM translator (projects/08/vm_translator.py) ----
    vm_args,           \* main's input: [isdir, no_bootstrap]
    vm_infiles,        \* infiles: each [name, stream], stream the file's lines
    vm_pc,             \* position in main(): "off", "start", "open", "translate",
                       \*   "written", "failed"
    vm_file,           \* index of the current file in infiles
    vm_result,         \* main's result
    vm_outfile,        \* the lines written to outpath
    tr_module,         \* Translator.module
    tr_pos,            \* position of the translator in its stream
    tr_linenum,        \* Translator.linenum
    tr_function,       \* Translator.function
    tr_calls,          \* Translator.calls
    tr_result          \* translate()'s result

vmVars == <<vm_args, vm_infiles, vm_pc, vm_file, vm_result, vm_outfile,
            tr_module, tr_pos, tr_linenum, tr_function, tr_calls, tr_result>>

VARIABLES
    \* ---- the Hack machine that runs the translator's output ----
    cpu_pc,            \* "off", "ready" (waiting for a program), "running"
    cpu_rom,           \* the loaded program: instructions with symbols resolved
    cpu_ram,           \* RAM, as a function on the cells in use (others hold 0)
    cpu_A, cpu_D,      \* the registers
    cpu_PC,            \* the program counter
    cpu_start          \* the RAM the machine was started with (never changes)

cpuVars == <<cpu_pc, cpu_rom, cpu_ram, cpu_A, cpu_D, cpu_PC, cpu_start>>

VARIABLES
    \* ---- Jack compiler (projects/11/compiler.py, Compiler) ----
    jk_tokens,             \* the tokens the tokeniser yields for the source
    jk_pc,                 \* position in compile_class(): "off", "class",
                           \*   "class_vars", "subroutines", "done", "error"
    jk_pos,                \* number of tokens consumed so far
    jk_out,                \* the lines written to output_stream
    jk_class_name,         \* Compiler.class_name
    jk_class_symbols,      \* Compiler.class_symbols
    jk_subroutine_symbols, \* Compiler.subroutine_symbols
    jk_label_counter       \* Compiler.label_counter

jackVars == <<jk_tokens, jk_pc, jk_pos, jk_out, jk_class_name, jk_class_symbols,
              jk_subroutine_symbols, jk_label_counter>>

VARIABLES
    \* ---- Jack tokeniser (projects/11/tokeniser.py, Tokeniser) ----
    tk_items,          \* the lexemes and separators the buffer is made of
    tk_buf,            \* Tokeniser.buf
    tk_pc,             \* position in generate(): "off", "has_next", "advance",
                       \*   "done" (generator exhausted), "raised"
    tk_index,          \* Tokeniser.index
    tk_line,           \* Tokeniser.line
    tk_position,       \* Tokeniser.position
    tk_tokens          \* the tokens generate() has yielded

tokVars == <<tk_items, tk_buf, tk_pc, tk_index, tk_line, tk_position, tk_tokens>>

vars == <<asmVars, vmVars, cpuVars, jackVars, tokVars>>

\* A component that takes no part in a specification stays as constructed.
AsmIdle ==
    /\ asm_source = <<>> /\ asm_pc = "off" /\ asm_i = 1 /\ asm_n = 0
    /\ asm_instructions = <<>> /\ asm_symbols = <<>> /\ asm_register = 16
    /\ asm_result = <<>>

VmIdle ==
    /\ vm_args = [isdir |-> FALSE, no_bootstrap |-> FALSE]
    /\ vm_infiles = <<>> /\ vm_pc = "off" /\ vm_file = 1 /\ vm_result = <<>>
    /\ vm_outfile = <<>> /\ tr_module = <<>> /\ tr_pos = 1 /\ tr_linenum = 1
    /\ tr_function = <<>> /\ tr_calls = 0 /\ tr_result = <<>>

CpuIdle ==
    /\ cpu_pc = "off" /\ cpu_rom = <<>> /\ cpu_ram = <<>>
    /\ cpu_A = 0 /\ cpu_D = 0 /\ cpu_PC = 0 /\ cpu_start = <<>>

JackIdle ==
    /\ jk_tokens = <<>> /\ jk_pc = "off" /\ jk_pos = 0 /\ jk_out = <<>>
    /\ jk_class_name = "" /\ jk_class_symbols = <<>>
    /\ jk_subroutine_symbols = <<>> /\ jk_label_counter = 0

TokIdle ==
    /\ tk_items = <<>> /\ tk_buf = <<>> /\ tk_pc = "off" /\ tk_index = 0
    /\ tk_line = 0 /\ tk_position = 0 /\ tk_tokens = <<>>

(***************************************************************************)
(* Bounds of the model.                                                    *)
(***************************************************************************)
MaxAsmLines == 3

MaxVmLines == 4

MaxDirLines == 1

MaxArgs == 2

MaxLocals == 2

MaxFields == 2

MaxVars == 3

MaxItems == 3

(***************************************************************************)
(* Generic helpers: text, bits.                                            *)
(***************************************************************************)
Range(s) == {s[i] : i \in 1..Len(s)}

Digits == <<"0","1","2","3","4","5","6","7","8","9">>

IsDigitChar(c) == \E d \in 1..10 : Digits[d] = c

DigitVal(c) == (CHOOSE d \in 1..10 : Digits[d] = c) - 1

\* str.isdigit(): non-empty and every character a decimal digit
IsDigit(s) == Len(s) > 0 /\ \A i \in 1..Len(s) : IsDigitChar(s[i])

\* int(s) for a string of decimal digits
RECURSIVE ParseInt(_)
ParseInt(s) ==
    IF Len(s) = 0 THEN 0
    ELSE 10 * ParseInt(SubSeq(s, 1, Len(s) - 1)) + DigitVal(s[Len(s)])

\* str(n) for a natural number
RECURSIVE FormatInt(_)
FormatInt(k) ==
    IF k < 10 THEN <<Digits[k + 1]>>
    ELSE FormatInt(k \div 10) \o <<Digits[(k % 10) + 1]>>

IsSpace(c) == c \in {" ", "\t", "\n", "\r"}

\* str.strip()
RECURSIVE LStrip(_)
LStrip(s) ==
    IF Len(s) > 0 /\ IsSpace(s[1]) THEN LStrip(Tail(s)) ELSE s

RECURSIVE RStrip(_)
RStrip(s) ==
    IF Len(s) > 0 /\ IsSpace(s[Len(s)])
    THEN RStrip(SubSeq(s, 1, Len(s) - 1)) ELSE s

Strip(s) == RStrip(LStrip(s))

\* str.index(sub) for a two-character sub, 1-based; 0 when absent
Index2(s, c1, c2) ==
    LET hits == {i \in 1..(Len(s) - 1) : s[i] = c1 /\ s[i + 1] = c2}
    IN  IF hits = {} THEN 0 ELSE CHOOSE i \in hits : \A j \in hits : i <= j

\* positions of a character in a string
Positions(s, c) == {i \in 1..Len(s) : s[i] = c}

\* bitwise operators on naturals
RECURSIVE BitOr(_, _)
BitOr(a, b) ==
    IF a = 0 THEN b
    ELSE IF b = 0 THEN a
    ELSE (IF (a % 2 = 1) \/ (b % 2 = 1) THEN 1 ELSE 0)
         + 2 * BitOr(a \div 2, b \div 2)

RECURSIVE BitAnd(_, _)
BitAnd(a, b) ==
    IF a = 0 \/ b = 0 THEN 0
    ELSE (IF (a % 2 = 1) /\ (b % 2 = 1) THEN 1 ELSE 0)
         + 2 * BitAnd(a \div 2, b \div 2)

\* A sequence's elements, each with its position.
Indexed(lines) == [i \in 1..Len(lines) |-> [i |-> i, line |-> lines[i]]]

\* an empty dict
EmptyDict == [x \in {} |-> 0]

(***************************************************************************)
(* projects/06/assembler.py                                                *)
(***************************************************************************)
JUMPS ==
    (<<"J","G","T">> :> 1) @@ (<<"J","E","Q">> :> 2) @@ (<<"J","G","E">> :> 3) @@
    (<<"J","L","T">> :> 4) @@ (<<"J","N","E">> :> 5) @@ (<<"J","L","E">> :> 6) @@
    (<<"J","M","P">> :> 7)

DESTS == ("A" :> 32) @@ ("D" :> 16) @@ ("M" :> 8)

COMPS ==
    (<<"0">> :> 42) @@ (<<"1">> :> 63) @@ (<<"-","1">> :> 58) @@
    (<<"D">> :> 12) @@ (<<"A">> :> 48) @@
    (<<"!","D">> :> 13) @@ (<<"!","A">> :> 49) @@
    (<<"-","D">> :> 15) @@ (<<"-","A">> :> 51) @@
    (<<"D","+","1">> :> 31) @@ (<<"A","+","1">> :> 55) @@
    (<<"D","-","1">> :> 14) @@ (<<"A","-","1">> :> 50) @@
    (<<"D","+","A">> :> 2) @@ (<<"D","-","A">> :> 19) @@
    (<<"A","-","D">> :> 7) @@ (<<"D","&","A">> :> 0) @@
    (<<"D","|","A">> :> 21)

ASM_SYMBOLS ==
    (<<"R","0">> :> 0) @@ (<<"R","1">> :> 1) @@ (<<"R","2">> :> 2) @@
    (<<"R","3">> :> 3) @@ (<<"R","4">> :> 4) @@ (<<"R","5">> :> 5) @@
    (<<"R","6">> :> 6) @@ (<<"R","7">> :> 7) @@ (<<"R","8">> :> 8) @@
    (<<"R","9">> :> 9) @@ (<<"R","1","0">> :> 10) @@ (<<"R","1","1">> :> 11) @@
    (<<"R","1","2">> :> 12) @@ (<<"R","1","3">> :> 13) @@
    (<<"R","1","4">> :> 14) @@ (<<"R","1","5">> :> 15) @@
    (<<"S","C","R","E","E","N">> :> 16384) @@ (<<"K","B","D">> :> 24576)

\* The outcome of translate_c_instruction: the machine word, or a ValueError.
CError == [ok |-> FALSE, code |-> 0]

\* destcode: the OR of DESTS[ch] over the characters of dest
RECURSIVE DestCode(_)
DestCode(dest) ==
    IF Len(dest) = 0 THEN 0
    ELSE BitOr(DESTS[dest[1]], DestCode(Tail(dest)))

\* A different replacement: the M of the computation is left in place.
ReplaceMA_Unchanged(s) == s

\* str.replace('M', 'A')
ReplaceMA(s) == [i \in 1..Len(s) |-> IF s[i] = "M" THEN "A" ELSE s[i]]

\* A different translation: nothing is refused, an unknown mnemonic is 0.
translate_c_instruction_Lenient(source) == [ok |-> TRUE, code |-> 57344]

translate_c_instruction(source) ==
    LET semis == Positions(source, ";")
        hasJump == semis # {}
        sp == CHOOSE p \in semis : TRUE
        \* instruction, jump = instruction.split(';')
        ins1 == IF hasJump THEN SubSeq(source, 1, sp - 1) ELSE source
        jump == IF hasJump THEN SubSeq(source, sp + 1, Len(source)) ELSE <<>>
        eqs == Positions(ins1, "=")
        hasDest == eqs # {}
        ep == CHOOSE p \in eqs : TRUE
        \* dest, instruction = instruction.split('=')
        dest == IF hasDest THEN SubSeq(ins1, 1, ep - 1) ELSE <<>>
        ins2 == IF hasDest THEN SubSeq(ins1, ep + 1, Len(ins1)) ELSE ins1
        hasM == "M" \in Range(ins2)
        a == IF hasM THEN 4096 ELSE 0
        ins3 == IF hasM THEN ReplaceMA(ins2) ELSE ins2
        jumpcode == IF hasJump THEN JUMPS[jump] ELSE 0
    IN  IF Cardinality(semis) > 1 THEN CError      \* unpacking fails
        ELSE IF hasJump /\ jump \notin DOMAIN JUMPS THEN CError
        ELSE IF Cardinality(eqs) > 1 THEN CError
        ELSE IF \E i \in 1..Len(dest) : dest[i] \notin DOMAIN DESTS THEN CError
        ELSE IF ins3 \notin DOMAIN COMPS THEN CError
        ELSE [ok |-> TRUE,
              code |-> BitOr(BitOr(BitOr(BitOr(57344, a), COMPS[ins3] * 64),
                                   DestCode(dest)), jumpcode)]

\* The normalisation of one line in the first pass: strip, cut a comment, strip.
CleanLine(raw) ==
    LET line == Strip(raw)
        index == Index2(line, "/", "/")
    IN  IF index > 0 THEN Strip(SubSeq(line, 1, index - 1)) ELSE line

\* symbols = dict(SYMBOLS): the table the first pass starts from.
InitialSymbols == ASM_SYMBOLS

\* The table the second pass starts from.
SecondPassSymbols == EmptyDict

\* First pass, one iteration of the loop over source.split('\n').
AsmFirstPassLine ==
    /\ asm_pc = "pass1"
    /\ asm_i <= Len(asm_source)
    /\ LET line == CleanLine(asm_source[asm_i])
       IN  IF line = <<>> THEN
               UNCHANGED <<asm_symbols, asm_instructions, asm_n>>
           ELSE IF line[1] = "(" THEN
               \* marker = line[1:-1]; symbols[marker] = n
               LET marker == SubSeq(line, 2, Len(line) - 1)
               IN  /\ asm_symbols' = (marker :> asm_n) @@ asm_symbols
                   /\ UNCHANGED <<asm_instructions, asm_n>>
           ELSE
               /\ asm_instructions' = Append(asm_instructions, line)
               /\ asm_n' = asm_n + 1
               /\ UNCHANGED asm_symbols
    /\ asm_i' = asm_i + 1
    /\ UNCHANGED <<asm_source, asm_pc, asm_register, asm_result>>
    /\ UNCHANGED <<vmVars, cpuVars, jackVars, tokVars>>

\* Between the passes: symbols = {}; result = []; register = 16.
AsmStartSecondPass ==
    /\ asm_pc = "pass1"
    /\ asm_i > Len(asm_source)
    /\ asm_pc' = "pass2"
    /\ asm_symbols' = SecondPassSymbols
    /\ asm_result' = <<>>
    /\ asm_register' = 16
    /\ asm_i' = 1
    /\ UNCHANGED <<asm_source, asm_n, asm_instructions>>
    /\ UNCHANGED <<vmVars, cpuVars, jackVars, tokVars>>

\* A different order: the code is put in front of the words so far.
AppendCode_InFront(result, code) == << code >> \o result

\* result.append(code)
AppendCode(result, code) == Append(result, code)

\* Second pass, one iteration of the loop over the instructions.
AsmSecondPassInstruction ==
    /\ asm_pc = "pass2"
    /\ asm_i <= Len(asm_instructions)
    /\ LET instruction == asm_instructions[asm_i]
           label == Tail(instruction)
       IN  IF instruction[1] = "@" THEN
               IF IsDigit(label) THEN
                   /\ asm_result' = AppendCode(asm_result, BitAnd(32767, ParseInt(label)))
                   /\ asm_pc' = asm_pc
                   /\ UNCHANGED <<asm_symbols, asm_register>>
               ELSE IF label \in DOMAIN asm_symbols THEN
                   /\ asm_result' = AppendCode(asm_result, BitAnd(32767, asm_symbols[label]))
                   /\ asm_pc' = asm_pc
                   /\ UNCHANGED <<asm_symbols, asm_register>>
               ELSE
                   /\ asm_result' = AppendCode(asm_result, BitAnd(32767, asm_register))
                   /\ asm_symbols' = (label :> asm_register) @@ asm_symbols
                   /\ asm_register' = asm_register + 1
                   /\ asm_pc' = asm_pc
           ELSE
               LET c == translate_c_instruction(instruction)
               IN  IF c.ok THEN
                       /\ asm_result' = AppendCode(asm_result, c.code)
                       /\ asm_pc' = asm_pc
                       /\ UNCHANGED <<asm_symbols, asm_register>>
                   ELSE
                       \* the ValueError leaves assemble(): no list is returned
                       /\ asm_pc' = "error"
                       /\ asm_result' = <<>>
                       /\ UNCHANGED <<asm_symbols, asm_register>>
    /\ asm_i' = asm_i + 1
    /\ UNCHANGED <<asm_source, asm_n, asm_instructions>>
    /\ UNCHANGED <<vmVars, cpuVars, jackVars, tokVars>>

\* return result
AsmReturn ==
    /\ asm_pc = "pass2"
    /\ asm_i > Len(asm_instructions)
    /\ asm_pc' = "done"
    /\ UNCHANGED <<asm_source, asm_i, asm_n, asm_instructions, asm_symbols,
                   asm_register, asm_result>>
    /\ UNCHANGED <<vmVars, cpuVars, jackVars, tokVars>>

(***************************************************************************)
(* The assembler's inputs.                                                 *)
(***************************************************************************)
\* The seed program of the specification's first end-to-end scenario.
SeedProgram ==
    << <<"@","i">>, <<"M","=","1">>, <<"(","L","O","O","P",")">>, <<"@","i">>,
       <<"D","=","M">>, <<"@","L","O","O","P">>, <<"0",";","J","M","P">> >>

AsmLineAlphabet ==
    { <<"@","i">>, <<"@","j">>, <<"@","L","O","O","P">>, <<"@","E","N","D">>,
      <<"(","L","O","O","P",")">>, <<"(","E","N","D",")">>,
      <<"@","R","1">>, <<"D","=","M">> }

RECURSIVE SeqsUpTo(_, _)
SeqsUpTo(S, k) ==
    IF k = 0 THEN {<<>>}
    ELSE LET shorter == SeqsUpTo(S, k - 1)
         IN  shorter \cup {Append(s, x) : s \in shorter, x \in S}

\* The symbols the specification lists as predefined, with their addresses.
SpecPredefined ==
    ASM_SYMBOLS @@ (<<"S","P">> :> 0) @@ (<<"L","C","L">> :> 1) @@
    (<<"A","R","G">> :> 2) @@ (<<"T","H","I","S">> :> 3) @@
    (<<"T","H","A","T">> :> 4)

\* One program per predefined symbol: a variable, the symbol, another variable.
PredefinedProbes ==
    { << <<"@","i">>, <<"@">> \o p, <<"@","j">> >> : p \in DOMAIN SpecPredefined }

AsmSources ==
    SeqsUpTo(AsmLineAlphabet, MaxAsmLines) \cup {SeedProgram} \cup PredefinedProbes

AsmInit ==
    /\ asm_source \in AsmSources
    /\ asm_pc = "pass1"
    /\ asm_i = 1
    /\ asm_n = 0
    /\ asm_instructions = <<>>
    /\ asm_symbols = InitialSymbols
    /\ asm_register = 16
    /\ asm_result = <<>>
    /\ VmIdle /\ CpuIdle /\ JackIdle /\ TokIdle

AsmNext ==
    \/ AsmFirstPassLine
    \/ AsmStartSecondPass
    \/ AsmSecondPassInstruction
    \/ AsmReturn

SpecAsm == AsmInit /\ [][AsmNext]_vars

(***************************************************************************)
(* The assembler's inputs for the encoding of single instructions, the     *)
(* layout of the source and the instructions that cannot be encoded.       *)
(***************************************************************************)
\* dest: every combination of A, D and M, in every order, or none.
CDests ==
    { <<>>,
      <<"A">>,
      <<"D">>,
      <<"M">>,
      <<"A","D">>,
      <<"D","A">>,
      <<"A","M">>,
      <<"M","A">>,
      <<"D","M">>,
      <<"M","D">>,
      <<"A","D","M">>,
      <<"A","M","D">>,
      <<"D","A","M">>,
      <<"D","M","A">>,
      <<"M","A","D">>,
      <<"M","D","A">> }

\* The M-variant of a computation: str.replace('M', 'A') read backwards.
AToM(comp) == [i \in 1..Len(comp) |-> IF comp[i] = "A" THEN "M" ELSE comp[i]]

\* comp: a mnemonic of the table, or (variant) its M-variant.
CComp(comp, variant) == IF variant THEN AToM(comp) ELSE comp

HasMVariant(comp) == "A" \in Range(comp)

\* jmp: one of the seven jump mnemonics, or none.
CJumps == {<<>>} \cup DOMAIN JUMPS

DestPart(dest) == IF dest = <<>> THEN <<>> ELSE dest \o <<"=">>

JumpPart(jump) == IF jump = <<>> THEN <<>> ELSE <<";">> \o jump

\* The text dest=comp;jmp
CText(dest, comp, jump) == DestPart(dest) \o comp \o JumpPart(jump)

CInstructionSources ==
    { << CText(dest, CComp(comp, variant), jump) >> :
        dest \in CDests,
        comp \in DOMAIN COMPS,
        variant \in BOOLEAN,
        jump \in CJumps }

\* @x for decimal literals below, at and above 2^15 and 2^16.
LiteralSources ==
    { << <<"@">> \o x >> : x \in { <<"0">>, <<"5">>, <<"3","2","7","6","7">>, <<"3","2","7","6","8">>, <<"4","0","0","0","0">>, <<"6","5","5","3","5">>, <<"6","5","5","3","6">>, <<"9","9","9","9","9">> } }

\* Blank lines, comments, a label line, padded and commented instructions.
LayoutAlphabet ==
    { <<>>,
      <<" "," ">>,
      <<"/","/"," ","c">>,
      <<"(","L",")">>,
      <<" ","@","7"," ">>,
      <<"D","=","M"," ","/","/"," ","c">>,
      <<"0",";","J","M","P">> }

LayoutSources == SeqsUpTo(LayoutAlphabet, MaxAsmLines)

\* Instructions with an unknown comp, jump or dest among valid ones.
EncodingErrorAlphabet ==
    { <<"D","=","M">>, <<"@","i">>, <<"D","=","Q">>, <<"0",";","J","X","X">>, <<"X","=","1">> }

EncodingErrorSources == SeqsUpTo(EncodingErrorAlphabet, MaxAsmLines)

EncSources ==
    CInstructionSources \cup LiteralSources \cup LayoutSources
        \cup EncodingErrorSources \cup PredefinedProbes \cup {SeedProgram}

EncInit ==
    /\ asm_source \in EncSources
    /\ asm_pc = "pass1"
    /\ asm_i = 1
    /\ asm_n = 0
    /\ asm_instructions = <<>>
    /\ asm_symbols = InitialSymbols
    /\ asm_register = 16
    /\ asm_result = <<>>
    /\ VmIdle /\ CpuIdle /\ JackIdle /\ TokIdle

SpecEnc == EncInit /\ [][AsmNext]_vars

(***************************************************************************)
(* projects/08/vm_translator.py                                            *)
(*                                                                         *)
(* A line of VM source is modelled after line.split(): a record of the     *)
(* command word and the argument words; a blank or comment-only line has   *)
(* the command "".  Segment names are words; numbers, function names and   *)
(* label names are texts (sequences of characters).                        *)
(*                                                                         *)
(* A line of emitted assembly is a record: an A-instruction `@x`, a        *)
(* C-instruction `dest=comp;jump`, a label line `(x)` or a comment line.   *)
(* The trailing `// ...` comments of the emitted lines are left out.       *)
(***************************************************************************)
AInstr(x) == [k |-> "A", x |-> x]

CInstr(dest, comp, jump) == [k |-> "C", dest |-> dest, comp |-> comp, jump |-> jump]

LabelLine(x) == [k |-> "L", x |-> x]

CommentLine == [k |-> "comment"]

SymSP == <<"S","P">>
SymLCL == <<"L","C","L">>
SymARG == <<"A","R","G">>
SymTHIS == <<"T","H","I","S">>
SymTHAT == <<"T","H","A","T">>
SymAddr == <<"a","d","d","r">>
SymReturn == <<"r","e","t","u","r","n">>

SEGMENT_BASES ==
    ("local" :> SymLCL) @@ ("argument" :> SymARG) @@
    ("this" :> SymTHIS) @@ ("that" :> SymTHAT)

POINTER_BASES == (0 :> SymTHIS) @@ (1 :> SymTHAT)

TEMP_BASE == 5

\* A different table: `sub` without the negation of the top value.
STATIC_OPS_SubAdds ==
    ("neg" :> << AInstr(SymSP), CInstr("A", "M-1", ""), CInstr("M", "-M", "") >>) @@
    ("add" :> << AInstr(SymSP), CInstr("AM", "M-1", ""), CInstr("D", "M", ""),
                 CInstr("A", "A-1", ""), CInstr("M", "D+M", "") >>) @@
    ("sub" :> << AInstr(SymSP), CInstr("AM", "M-1", ""), CInstr("D", "M", ""),
                 CInstr("A", "A-1", ""), CInstr("M", "D+M", "") >>) @@
    ("and" :> << AInstr(SymSP), CInstr("AM", "M-1", ""), CInstr("D", "M", ""),
                 CInstr("A", "A-1", ""), CInstr("M", "D&M", "") >>) @@
    ("or"  :> << AInstr(SymSP), CInstr("AM", "M-1", ""), CInstr("D", "M", ""),
                 CInstr("A", "A-1", ""), CInstr("M", "D|M", "") >>) @@
    ("not" :> << AInstr(SymSP), CInstr("A", "M-1", ""), CInstr("M", "!M", "") >>)

STATIC_OPS ==
    ("neg" :> << AInstr(SymSP), CInstr("A", "M-1", ""), CInstr("M", "-M", "") >>) @@
    ("add" :> << AInstr(SymSP), CInstr("AM", "M-1", ""), CInstr("D", "M", ""),
                 CInstr("A", "A-1", ""), CInstr("M", "D+M", "") >>) @@
    ("sub" :> << AInstr(SymSP), CInstr("AM", "M-1", ""), CInstr("D", "-M", ""),
                 CInstr("A", "A-1", ""), CInstr("M", "D+M", "") >>) @@
    ("and" :> << AInstr(SymSP), CInstr("AM", "M-1", ""), CInstr("D", "M", ""),
                 CInstr("A", "A-1", ""), CInstr("M", "D&M", "") >>) @@
    ("or"  :> << AInstr(SymSP), CInstr("AM", "M-1", ""), CInstr("D", "M", ""),
                 CInstr("A", "A-1", ""), CInstr("M", "D|M", "") >>) @@
    ("not" :> << AInstr(SymSP), CInstr("A", "M-1", ""), CInstr("M", "!M", "") >>)

COMPARISON_OPS == ("eq" :> "JEQ") @@ ("lt" :> "JLT") @@ ("gt" :> "JGT")

ARG_COUNTS ==
    ("push" :> 2) @@ ("pop" :> 2) @@ ("label" :> 1) @@ ("goto" :> 1) @@
    ("if-goto" :> 1) @@ ("function" :> 2) @@ ("call" :> 2)

BOOTSTRAP ==
    << AInstr(<<"2","5","6">>), CInstr("D", "A", ""), AInstr(SymSP),
       CInstr("M", "D", "") >>

\* What a translate_* method gives: the lines, or a ValueError.
TrError == [ok |-> FALSE, lines |-> <<>>]

TrOk(lines) == [ok |-> TRUE, lines |-> lines]

\* The common tail of every push: *SP = D; SP++.
PushD ==
    << AInstr(SymSP), CInstr("M", "M+1", ""), CInstr("A", "M-1", ""),
       CInstr("M", "D", "") >>

translate_push(module, segment, offset) ==
    IF segment \in DOMAIN SEGMENT_BASES THEN
        TrOk(<< AInstr(FormatInt(offset)), CInstr("D", "A", ""),
                AInstr(SEGMENT_BASES[segment]), CInstr("A", "D+M", ""),
                CInstr("D", "M", "") >> \o PushD)
    ELSE IF segment = "constant" THEN
        TrOk(<< AInstr(FormatInt(offset)), CInstr("D", "A", "") >> \o PushD)
    ELSE IF segment = "temp" THEN
        TrOk(<< AInstr(FormatInt(TEMP_BASE + offset)), CInstr("D", "M", "") >> \o PushD)
    ELSE IF segment = "static" THEN
        TrOk(<< AInstr(module \o <<".">> \o FormatInt(offset)),
                CInstr("D", "M", "") >> \o PushD)
    ELSE IF segment = "pointer" THEN
        IF offset \notin DOMAIN POINTER_BASES THEN TrError
        ELSE TrOk(<< AInstr(POINTER_BASES[offset]), CInstr("D", "M", "") >> \o PushD)
    ELSE TrError

\* A different head: the top is read but SP is not written back.
PopD_KeepSP == << AInstr(SymSP), CInstr("A", "M-1", ""), CInstr("D", "M", "") >>

\* The common head of a pop to a fixed cell: SP--; D = *SP.
PopD == << AInstr(SymSP), CInstr("AM", "M-1", ""), CInstr("D", "M", "") >>

translate_pop(module, segment, offset) ==
    IF segment \in DOMAIN SEGMENT_BASES THEN
        TrOk(<< AInstr(FormatInt(offset)), CInstr("D", "A", ""),
                AInstr(SEGMENT_BASES[segment]), CInstr("D", "D+M", ""),
                AInstr(SymAddr), CInstr("M", "D", ""),
                AInstr(SymSP), CInstr("AM", "M-1", ""), CInstr("D", "M", ""),
                AInstr(SymAddr), CInstr("A", "M", ""), CInstr("M", "D", "") >>)
    ELSE IF segment = "constant" THEN TrError
    ELSE IF segment = "temp" THEN
        TrOk(PopD \o << AInstr(FormatInt(TEMP_BASE + offset)), CInstr("M", "D", "") >>)
    ELSE IF segment = "static" THEN
        TrOk(PopD \o << AInstr(module \o <<".">> \o FormatInt(offset)),
                        CInstr("M", "D", "") >>)
    ELSE IF segment = "pointer" THEN
        IF offset \notin DOMAIN POINTER_BASES THEN TrError
        ELSE TrOk(PopD \o << AInstr(POINTER_BASES[offset]), CInstr("M", "D", "") >>)
    ELSE TrError

\* label = f'{self.function}.{self.linenum}'
ComparisonLabel(function, linenum) == function \o <<".">> \o FormatInt(linenum)

\* A different comparison: true is the word 1.
translate_comparison_TrueIsOne(function, linenum, op) ==
    LET jump == COMPARISON_OPS[op]
        label == ComparisonLabel(function, linenum)
    IN  << AInstr(SymSP), CInstr("AM", "M-1", ""), CInstr("D", "-M", ""),
           CInstr("A", "A-1", ""), CInstr("D", "D+M", ""),
           AInstr(label \o <<".","T","R","U","E">>), CInstr("", "D", jump),
           CInstr("D", "0", ""),
           AInstr(label \o <<".","E","N","D">>), CInstr("", "0", "JMP"),
           LabelLine(label \o <<".","T","R","U","E">>),
           CInstr("D", "1", ""),
           LabelLine(label \o <<".","E","N","D">>),
           AInstr(SymSP), CInstr("A", "M-1", ""), CInstr("M", "D", "") >>

translate_comparison(function, linenum, op) ==
    LET jump == COMPARISON_OPS[op]
        label == ComparisonLabel(function, linenum)
    IN  << AInstr(SymSP), CInstr("AM", "M-1", ""), CInstr("D", "-M", ""),
           CInstr("A", "A-1", ""), CInstr("D", "D+M", ""),
           AInstr(label \o <<".","T","R","U","E">>), CInstr("", "D", jump),
           CInstr("D", "0", ""),
           AInstr(label \o <<".","E","N","D">>), CInstr("", "0", "JMP"),
           LabelLine(label \o <<".","T","R","U","E">>),
           CInstr("D", "-1", ""),
           LabelLine(label \o <<".","E","N","D">>),
           AInstr(SymSP), CInstr("A", "M-1", ""), CInstr("M", "D", "") >>

\* The lines that zero the locals: `M=0`, `A=A+1`, nlocals times.
RECURSIVE ZeroLocals(_)
ZeroLocals(nlocals) ==
    IF nlocals = 0 THEN <<>>
    ELSE << CInstr("M", "0", ""), CInstr("A", "A+1", "") >> \o ZeroLocals(nlocals - 1)

translate_function(name, nlocals) ==
    << LabelLine(name), AInstr(SymLCL), CInstr("A", "M", "") >>
    \o ZeroLocals(nlocals)
    \o (IF nlocals > 0
        THEN << CInstr("D", "A", ""), AInstr(SymSP), CInstr("M", "D", "") >>
        ELSE <<>>)

\* translate_function sets self.function and leaves self.calls as it is.
CallsAfterFunction_Reset(calls) == 0

CallsAfterFunction(calls) == calls

\* self.calls += 1 at the head of translate_call
NextCalls(calls) == calls + 1

\* label = f'{self.function}$ret.{self.calls}'
ReturnLabel(function, calls) ==
    function \o <<"$","r","e","t",".">> \o FormatInt(calls)

\* The segments a call saves, in the order it saves them.
SavedSegments == << SymLCL, SymARG, SymTHIS, SymTHAT >>

RECURSIVE SaveSegments(_)
SaveSegments(segments) ==
    IF segments = <<>> THEN <<>>
    ELSE << AInstr(Head(segments)), CInstr("D", "M", ""), AInstr(SymSP),
            CInstr("AM", "M+1", ""), CInstr("M", "D", "") >>
         \o SaveSegments(Tail(segments))

\* A different offset: the frame's five words are miscounted as four.
CallOffset_FourWords(nargs) == 4 + nargs

\* offset = 5 + nargs
CallOffset(nargs) == 5 + nargs

\* translate_call, with `calls` the value of self.calls after its increment.
translate_call(function, calls, name, nargs) ==
    LET label == ReturnLabel(function, calls)
    IN  << CommentLine,
           AInstr(label), CInstr("D", "A", ""), AInstr(SymSP),
           CInstr("A", "M", ""), CInstr("M", "D", "") >>
        \o SaveSegments(SavedSegments)
        \o << CInstr("D", "A+1", ""), AInstr(SymSP), CInstr("M", "D", ""),
              AInstr(SymLCL), CInstr("M", "D", ""),
              AInstr(FormatInt(CallOffset(nargs))), CInstr("D", "D-A", ""),
              AInstr(SymARG), CInstr("M", "D", ""),
              AInstr(name), CInstr("", "0", "JMP"),
              LabelLine(label) >>

\* A different order of restoring: THIS and THAT exchanged.
RestoredSegments_Exchanged == << SymTHIS, SymTHAT, SymARG, SymLCL >>

\* The segments a return restores, in the order it restores them.
RestoredSegments == << SymTHAT, SymTHIS, SymARG, SymLCL >>

RECURSIVE RestoreSegments(_)
RestoreSegments(segments) ==
    IF segments = <<>> THEN <<>>
    ELSE << CInstr("D", "M", ""), AInstr(Head(segments)), CInstr("M", "D", ""),
            AInstr(SymAddr), CInstr("AM", "M-1", "") >>
         \o RestoreSegments(Tail(segments))

translate_return ==
    << AInstr(<<"5">>), CInstr("D", "A", ""), AInstr(SymLCL),
       CInstr("A", "M-D", ""), CInstr("D", "M", ""),
       AInstr(SymReturn), CInstr("M", "D", ""),
       AInstr(SymSP), CInstr("A", "M-1", ""), CInstr("D", "M", ""),
       AInstr(SymARG), CInstr("A", "M", ""), CInstr("M", "D", ""),
       CInstr("D", "A+1", ""), AInstr(SymSP), CInstr("M", "D", ""),
       AInstr(SymLCL), CInstr("D", "M-1", ""),
       AInstr(SymAddr), CInstr("AM", "D", "") >>
    \o RestoreSegments(RestoredSegments)
    \o << AInstr(SymReturn), CInstr("A", "M", ""), CInstr("", "0", "JMP") >>

\* label = self.make_label(args[0])
\* A label that is not scoped by its function.
make_label_Global(function, name) == name

make_label(function, name) == function \o <<"$">> \o name

\* translate_command on a translator in state [module, linenum, function,
\* calls]: the lines (or the error) and the translator's new function and calls.
CmdResult(r, function, calls) ==
    [ok |-> r.ok, lines |-> r.lines, function |-> function, calls |-> calls]

translate_command(t, command, args) ==
    LET count == IF command \in DOMAIN ARG_COUNTS THEN ARG_COUNTS[command] ELSE 0
        same(r) == CmdResult(r, t.function, t.calls)
    IN  IF Len(args) # count THEN same(TrError)
        ELSE IF command \in DOMAIN STATIC_OPS THEN same(TrOk(STATIC_OPS[command]))
        ELSE IF command \in DOMAIN COMPARISON_OPS THEN
            same(TrOk(translate_comparison(t.function, t.linenum, command)))
        ELSE IF command = "push" THEN
            IF ~IsDigit(args[2]) THEN same(TrError)
            ELSE same(translate_push(t.module, args[1], ParseInt(args[2])))
        ELSE IF command = "pop" THEN
            IF ~IsDigit(args[2]) THEN same(TrError)
            ELSE same(translate_pop(t.module, args[1], ParseInt(args[2])))
        ELSE IF command = "label" THEN
            same(TrOk(<< LabelLine(make_label(t.function, args[1])) >>))
        ELSE IF command = "goto" THEN
            same(TrOk(<< AInstr(make_label(t.function, args[1])),
                         CInstr("", "0", "JMP") >>))
        ELSE IF command = "if-goto" THEN
            same(TrOk(<< AInstr(SymSP), CInstr("AM", "M-1", ""), CInstr("D", "M", ""),
                         AInstr(make_label(t.function, args[1])),
                         CInstr("", "D", "JNE") >>))
        ELSE IF command = "function" THEN
            IF ~IsDigit(args[2]) THEN same(TrError)
            ELSE CmdResult(TrOk(translate_function(args[1], ParseInt(args[2]))),
                           args[1], CallsAfterFunction(t.calls))
        ELSE IF command = "call" THEN
            IF ~IsDigit(args[2]) THEN same(TrError)
            ELSE CmdResult(TrOk(translate_call(t.function, NextCalls(t.calls),
                                               args[1], ParseInt(args[2]))),
                           t.function, NextCalls(t.calls))
        ELSE IF command = "return" THEN same(TrOk(translate_return))
        ELSE same(TrError)

BootstrapLines_DirectoryOnly(args) ==
    IF args.isdir /\ ~args.no_bootstrap
    THEN BOOTSTRAP \o translate_call(<<>>, NextCalls(0), <<"S","y","s",".","i","n","i","t">>, 0)
    ELSE <<>>

\* main(): result = []; the bootstrap unless args.no_bootstrap.
BootstrapLines(args) ==
    IF ~args.no_bootstrap
    THEN BOOTSTRAP \o translate_call(<<>>, NextCalls(0), <<"S","y","s",".","i","n","i","t">>, 0)
    ELSE <<>>

VmMainStart ==
    /\ vm_pc = "start"
    /\ vm_result' = BootstrapLines(vm_args)
    /\ vm_file' = 1
    /\ vm_pc' = "open"
    /\ UNCHANGED <<vm_args, vm_infiles, vm_outfile, tr_module, tr_pos, tr_linenum,
                   tr_function, tr_calls, tr_result>>
    /\ UNCHANGED <<asmVars, cpuVars, jackVars, tokVars>>

\* tr = Translator(basename, fp), and the head of tr.translate()
VmOpenFile ==
    /\ vm_pc = "open"
    /\ vm_file <= Len(vm_infiles)
    /\ tr_module' = vm_infiles[vm_file].name
    /\ tr_pos' = 1
    /\ tr_linenum' = 1
    /\ tr_function' = <<>>
    /\ tr_calls' = 0
    /\ tr_result' = <<>>
    /\ vm_pc' = "translate"
    /\ UNCHANGED <<vm_args, vm_infiles, vm_file, vm_result, vm_outfile>>
    /\ UNCHANGED <<asmVars, cpuVars, jackVars, tokVars>>

\* One iteration of the loop of translate().
VmTranslateLine ==
    /\ vm_pc = "translate"
    /\ tr_pos <= Len(vm_infiles[vm_file].stream)
    /\ LET line == vm_infiles[vm_file].stream[tr_pos]
           t == [module |-> tr_module, linenum |-> tr_linenum,
                 function |-> tr_function, calls |-> tr_calls]
           r == translate_command(t, line.command, line.args)
       IN  IF line.command = "" THEN
               /\ tr_linenum' = tr_linenum + 1
               /\ UNCHANGED <<tr_function, tr_calls, tr_result, vm_pc>>
           ELSE IF r.ok THEN
               /\ tr_result' = tr_result \o r.lines
               /\ tr_function' = r.function
               /\ tr_calls' = r.calls
               /\ tr_linenum' = tr_linenum + 1
               /\ UNCHANGED vm_pc
           ELSE
               \* the exception reaches main(), which returns 1 without writing
               /\ vm_pc' = "failed"
               /\ UNCHANGED <<tr_function, tr_calls, tr_result, tr_linenum>>
    /\ tr_pos' = tr_pos + 1
    /\ UNCHANGED <<vm_args, vm_infiles, vm_file, vm_result, vm_outfile, tr_module>>
    /\ UNCHANGED <<asmVars, cpuVars, jackVars, tokVars>>

\* result.extend(tr.translate()) once the stream is exhausted
VmFileDone ==
    /\ vm_pc = "translate"
    /\ tr_pos > Len(vm_infiles[vm_file].stream)
    /\ vm_result' = vm_result \o tr_result
    /\ vm_file' = vm_file + 1
    /\ vm_pc' = "open"
    /\ UNCHANGED <<vm_args, vm_infiles, vm_outfile, tr_module, tr_pos, tr_linenum,
                   tr_function, tr_calls, tr_result>>
    /\ UNCHANGED <<asmVars, cpuVars, jackVars, tokVars>>

\* with open(outpath, 'w') as fp: write every line of result
VmWrite ==
    /\ vm_pc = "open"
    /\ vm_file > Len(vm_infiles)
    /\ vm_outfile' = vm_result
    /\ vm_pc' = "written"
    /\ UNCHANGED <<vm_args, vm_infiles, vm_file, vm_result, tr_module, tr_pos,
                   tr_linenum, tr_function, tr_calls, tr_result>>
    /\ UNCHANGED <<asmVars, cpuVars, jackVars, tokVars>>

(***************************************************************************)
(* The translator's inputs.                                                *)
(***************************************************************************)
VmLine(command, args) == [command |-> command, args |-> args]

BlankLine == VmLine("", <<>>)

NameF == <<"F">>
NameG == <<"G">>

TrLineAlphabet ==
    { VmLine("function", <<NameF, <<"0">>>>), VmLine("function", <<NameG, <<"1">>>>),
      VmLine("call", <<NameG, <<"1">>>>), VmLine("push", <<"constant", <<"7">>>>),
      BlankLine }

\* A single input file: any short stream.  A directory: up to two files with
\* shorter streams.
TrFileStreams == SeqsUpTo(TrLineAlphabet, MaxVmLines)

TrDirStreams == SeqsUpTo(TrLineAlphabet, MaxDirLines)

VmFile(name, stream) == [name |-> name, stream |-> stream]

TrInputs ==
    { [isdir |-> FALSE, infiles |-> << VmFile(<<"M">>, st) >>] : st \in TrFileStreams }
    \cup { [isdir |-> TRUE, infiles |-> <<>>] }
    \cup { [isdir |-> TRUE, infiles |-> << VmFile(<<"M">>, st) >>] : st \in TrFileStreams }
    \cup { [isdir |-> TRUE, infiles |-> << VmFile(<<"M">>, s1), VmFile(<<"N">>, s2) >>] :
              s1 \in TrDirStreams, s2 \in TrDirStreams }

TrInit ==
    /\ \E in \in TrInputs, nb \in BOOLEAN :
          /\ vm_args = [isdir |-> in.isdir, no_bootstrap |-> nb]
          /\ vm_infiles = in.infiles
    /\ vm_pc = "start"
    /\ vm_file = 1 /\ vm_result = <<>> /\ vm_outfile = <<>>
    /\ tr_module = <<>> /\ tr_pos = 1 /\ tr_linenum = 1
    /\ tr_function = <<>> /\ tr_calls = 0 /\ tr_result = <<>>
    /\ AsmIdle /\ CpuIdle /\ JackIdle /\ TokIdle

TrNext ==
    \/ VmMainStart
    \/ VmOpenFile
    \/ VmTranslateLine
    \/ VmFileDone
    \/ VmWrite

SpecTr == TrInit /\ [][TrNext]_vars

(***************************************************************************)
(* Claims about the translator's output.                                   *)
(***************************************************************************)
\* The bootstrap prelude as the specification describes it: SP=256, then
\* the code of `call Sys.init 0`.
BootstrapPrelude ==
    BOOTSTRAP \o translate_call(<<>>, 1, <<"S","y","s",".","i","n","i","t">>, 0)

StartsWithBootstrap(lines) ==
    /\ Len(lines) >= Len(BootstrapPrelude)
    /\ SubSeq(lines, 1, Len(BootstrapPrelude)) = BootstrapPrelude

\* C5 (as claimed): the written output starts with the bootstrap prelude
\* exactly when the input path is a directory and the disable flag is not
\* given; for a single file there is no bootstrap.
C5_BootstrapOnlyForDirectory ==
    vm_pc = "written" =>
        (StartsWithBootstrap(vm_outfile) <=> (vm_args.isdir /\ ~vm_args.no_bootstrap))

\* C5 (amended): the written output starts with the bootstrap prelude
\* exactly when the disable flag is not given, for a directory and for a
\* single file alike.
C5_BootstrapUnlessDisabled ==
    vm_pc = "written" =>
        (StartsWithBootstrap(vm_outfile) <=> ~vm_args.no_bootstrap)

\* C5 witness: a single file translated without the flag, written with the
\* bootstrap in front.
C5_Witness ==
    /\ vm_pc = "written"
    /\ ~vm_args.isdir /\ ~vm_args.no_bootstrap
    /\ Len(vm_infiles[1].stream) > 0
    /\ StartsWithBootstrap(vm_outfile)

\* The return-address labels in emitted lines: the label line that closes
\* the code of a call (`@ARG`, `M=D`, `@<callee>`, `0;JMP`, `(<label>)`).
IsReturnLabelAt(lines, i) ==
    /\ i >= 5
    /\ lines[i].k = "L"
    /\ lines[i - 1] = CInstr("", "0", "JMP")
    /\ lines[i - 2].k = "A"
    /\ lines[i - 3] = CInstr("M", "D", "")
    /\ lines[i - 4] = AInstr(SymARG)

EmittedReturnLabels(lines) ==
    LET IsReturnLabel(e) == IsReturnLabelAt(lines, e.i)
        found == SelectSeq(Indexed(lines), IsReturnLabel)
    IN  [j \in 1..Len(found) |-> found[j].line.x]

\* Read off the VM source: the function enclosing line p, and the calls.
CallLines(stream, from, to) ==
    {q \in from..to : stream[q].command = "call"}

LastFunctionLine(stream, p) ==
    LET fs == {q \in 1..p : stream[q].command = "function"}
    IN  IF fs = {} THEN 0 ELSE CHOOSE q \in fs : \A r \in fs : r <= q

EnclosingFunction(stream, p) ==
    IF LastFunctionLine(stream, p) = 0 THEN <<>>
    ELSE stream[LastFunctionLine(stream, p)].args[1]

\* The label of the call of line p, numbering the calls within its function.
PerFunctionLabel(stream, p) ==
    EnclosingFunction(stream, p) \o <<"$","r","e","t",".">>
    \o FormatInt(Cardinality(CallLines(stream, LastFunctionLine(stream, p) + 1, p)))

\* The label of the call of line p, numbering the calls within the file.
PerFileLabel(stream, p) ==
    EnclosingFunction(stream, p) \o <<"$","r","e","t",".">>
    \o FormatInt(Cardinality(CallLines(stream, 1, p)))

\* The labels of the calls among the first n lines, in order.
LabelsOfCalls(Lbl(_, _), stream, n) ==
    LET IsCall(e) == e.line.command = "call"
        calls == SelectSeq(Indexed(SubSeq(stream, 1, n)), IsCall)
    IN  [j \in 1..Len(calls) |-> Lbl(stream, calls[j].i)]

Translating ==
    /\ vm_pc = "translate"
    /\ vm_file <= Len(vm_infiles)

\* C6 (as claimed): while a file is translated, the return-address labels
\* emitted so far are, in order, F$ret.k for the k-th call inside function F.
C6_ReturnLabelsPerFunction ==
    Translating =>
        EmittedReturnLabels(tr_result)
          = LabelsOfCalls(PerFunctionLabel, vm_infiles[vm_file].stream, tr_pos - 1)

\* C6 (amended): while a file is translated, the return-address labels
\* emitted so far are, in order, F$ret.n for a call inside function F that is
\* the n-th call command of the file: the counter runs over the whole file
\* and is not reset by a `function` command.
C6_ReturnLabelsPerFile ==
    Translating =>
        EmittedReturnLabels(tr_result)
          = LabelsOfCalls(PerFileLabel, vm_infiles[vm_file].stream, tr_pos - 1)

\* C6 witness: a call has been translated inside a function that follows an
\* earlier call of the same file.
C6_Witness ==
    /\ Translating
    /\ tr_pos > 1
    /\ vm_infiles[vm_file].stream[tr_pos - 1].command = "call"
    /\ LastFunctionLine(vm_infiles[vm_file].stream, tr_pos - 1) > 0
    /\ CallLines(vm_infiles[vm_file].stream, 1,
                 LastFunctionLine(vm_infiles[vm_file].stream, tr_pos - 1)) # {}
    /\ EmittedReturnLabels(tr_result) # <<>>

(***************************************************************************)
(* The Hack machine.  The translator's output is loaded the way the        *)
(* assembler is documented to resolve it (label lines bind the address of  *)
(* the next instruction, predefined symbols have their fixed addresses,    *)
(* other symbols are variables from address 16 in order of appearance),    *)
(* and is executed on 16-bit registers and memory.                         *)
(***************************************************************************)
Word == 65536

Signed(v) == IF v >= 32768 THEN v - Word ELSE v

RECURSIVE BitNot16(_, _)
BitNot16(v, bits) ==
    IF bits = 0 THEN 0
    ELSE (1 - (v % 2)) + 2 * BitNot16(v \div 2, bits - 1)

\* The value of a computation mnemonic on the registers (the ALU).
CompValue(comp, A, D, M) ==
    CASE comp = "0"   -> 0
      [] comp = "1"   -> 1
      [] comp = "-1"  -> Word - 1
      [] comp = "D"   -> D
      [] comp = "A"   -> A
      [] comp = "M"   -> M
      [] comp = "!D"  -> BitNot16(D, 16)
      [] comp = "!A"  -> BitNot16(A, 16)
      [] comp = "!M"  -> BitNot16(M, 16)
      [] comp = "-D"  -> (Word - D) % Word
      [] comp = "-A"  -> (Word - A) % Word
      [] comp = "-M"  -> (Word - M) % Word
      [] comp = "D+1" -> (D + 1) % Word
      [] comp = "A+1" -> (A + 1) % Word
      [] comp = "M+1" -> (M + 1) % Word
      [] comp = "D-1" -> (D + Word - 1) % Word
      [] comp = "A-1" -> (A + Word - 1) % Word
      [] comp = "M-1" -> (M + Word - 1) % Word
      [] comp = "D+A" -> (D + A) % Word
      [] comp = "D+M" -> (D + M) % Word
      [] comp = "D-A" -> (D + Word - A) % Word
      [] comp = "D-M" -> (D + Word - M) % Word
      [] comp = "A-D" -> (A + Word - D) % Word
      [] comp = "M-D" -> (M + Word - D) % Word
      [] comp = "D&A" -> BitAnd(D, A)
      [] comp = "D&M" -> BitAnd(D, M)
      [] comp = "D|A" -> BitOr(D, A)
      [] comp = "D|M" -> BitOr(D, M)

\* Whether a jump mnemonic jumps on the computed value.
JumpTaken(jump, v) ==
    CASE jump = ""    -> FALSE
      [] jump = "JGT" -> Signed(v) > 0
      [] jump = "JEQ" -> v = 0
      [] jump = "JGE" -> Signed(v) >= 0
      [] jump = "JLT" -> Signed(v) < 0
      [] jump = "JNE" -> v # 0
      [] jump = "JLE" -> Signed(v) <= 0
      [] jump = "JMP" -> TRUE

\* Whether a destination mnemonic names register r.
DestHas(dest, r) ==
    CASE r = "A" -> dest \in {"A", "AM", "AD", "AMD"}
      [] r = "D" -> dest \in {"D", "MD", "AD", "AMD"}
      [] r = "M" -> dest \in {"M", "AM", "MD", "AMD"}

Read(ram, a) == IF a \in DOMAIN ram THEN ram[a] ELSE 0

Write(ram, a, v) == (a :> v) @@ ram

IsInstruction(line) == line.k \in {"A", "C"}

\* The number of instructions among the first n lines.
CountInstructions(lines, n) ==
    Cardinality({j \in 1..n : IsInstruction(lines[j])})

LabelNames(lines) == {lines[i].x : i \in {j \in 1..Len(lines) : lines[j].k = "L"}}

\* The address a label line binds: the address of the next instruction.
LabelAddress(lines, name) ==
    LET i == CHOOSE j \in 1..Len(lines) : lines[j].k = "L" /\ lines[j].x = name
    IN  CountInstructions(lines, i)

IsVariableName(labels, x) ==
    /\ ~IsDigit(x)
    /\ x \notin DOMAIN SpecPredefined
    /\ x \notin labels

\* The variables in order of first appearance.
VariableSeq(lines, labels) ==
    LET IsFirstUse(e) ==
            /\ e.line.k = "A"
            /\ IsVariableName(labels, e.line.x)
            /\ \A j \in 1..(e.i - 1) :
                   ~(lines[j].k = "A" /\ lines[j].x = e.line.x)
        uses == SelectSeq(Indexed(lines), IsFirstUse)
    IN  [i \in 1..Len(uses) |-> uses[i].line.x]

ResolveSymbol(lines, labels, variables, x) ==
    IF IsDigit(x) THEN ParseInt(x)
    ELSE IF x \in labels THEN LabelAddress(lines, x)
    ELSE IF x \in DOMAIN SpecPredefined THEN SpecPredefined[x]
    ELSE 15 + (CHOOSE i \in 1..Len(variables) : variables[i] = x)

LoadProgram(lines) ==
    LET labels == LabelNames(lines)
        variables == VariableSeq(lines, labels)
        instructions == SelectSeq(lines, IsInstruction)
    IN  [i \in 1..Len(instructions) |->
            IF instructions[i].k = "A"
            THEN [k |-> "A",
                  v |-> BitAnd(32767, ResolveSymbol(lines, labels, variables,
                                                    instructions[i].x))]
            ELSE instructions[i]]

\* The written program is loaded into the machine's ROM.
HackLoad ==
    /\ vm_pc = "written"
    /\ cpu_pc = "ready"
    /\ cpu_rom' = LoadProgram(vm_outfile)
    /\ cpu_pc' = "running"
    /\ cpu_PC' = 0
    /\ UNCHANGED <<cpu_ram, cpu_A, cpu_D, cpu_start>>
    /\ UNCHANGED <<asmVars, vmVars, jackVars, tokVars>>

\* One instruction of the loaded program.
HackStep ==
    /\ cpu_pc = "running"
    /\ cpu_PC < Len(cpu_rom)
    /\ LET ins == cpu_rom[cpu_PC + 1]
           M == Read(cpu_ram, cpu_A)
       IN  IF ins.k = "A" THEN
               /\ cpu_A' = ins.v
               /\ cpu_PC' = cpu_PC + 1
               /\ UNCHANGED <<cpu_D, cpu_ram>>
           ELSE
               LET v == CompValue(ins.comp, cpu_A, cpu_D, M)
               IN  /\ cpu_A' = IF DestHas(ins.dest, "A") THEN v ELSE cpu_A
                   /\ cpu_D' = IF DestHas(ins.dest, "D") THEN v ELSE cpu_D
                   /\ cpu_ram' = IF DestHas(ins.dest, "M")
                                 THEN Write(cpu_ram, cpu_A, v) ELSE cpu_ram
                   /\ cpu_PC' = IF JumpTaken(ins.jump, v) THEN cpu_A ELSE cpu_PC + 1
    /\ UNCHANGED <<cpu_pc, cpu_rom, cpu_start>>
    /\ UNCHANGED <<asmVars, vmVars, jackVars, tokVars>>

(***************************************************************************)
(* Running translated code: a caller that calls F, and F's definition.     *)
(***************************************************************************)
NameEND == <<"E","N","D">>

\* The bodies of the callee: each leaves exactly one value on its stack.
CalleeBodies(nargs, nlocals) ==
    { << VmLine("push", <<"constant", <<"7">>>>) >>,
      << VmLine("push", <<"constant", <<"2">>>>),
         VmLine("push", <<"constant", <<"3">>>>), VmLine("add", <<>>) >> }
    \cup (IF nargs > 0 THEN { << VmLine("push", <<"argument", <<"0">>>>) >> } ELSE {})
    \cup (IF nlocals > 0 THEN { << VmLine("push", <<"local", <<"0">>>>) >> } ELSE {})

CallProgram(nargs, nlocals, body) ==
    << VmLine("call", <<NameF, FormatInt(nargs)>>),
       VmLine("label", <<NameEND>>),
       VmLine("goto", <<NameEND>>),
       VmLine("function", <<NameF, FormatInt(nlocals)>>) >>
    \o body
    \o << VmLine("return", <<>>) >>

\* The caller's state just before the call: the five pointers.
CallerStates ==
    { [s |-> s, l |-> l, a |-> 280, t |-> t, u |-> 3010] :
        s \in {256, 290}, l \in {300, 0}, t \in {3000, 65535} }

\* The machine's RAM before the call: the pointers, the nargs arguments on
\* top of the stack, and a stale value where the callee's locals will be.
RECURSIVE ArgumentCells(_, _)
ArgumentCells(s, nargs) ==
    IF nargs = 0 THEN <<>>
    ELSE ((s - nargs) :> (10 + nargs)) @@ ArgumentCells(s, nargs - 1)

StartRam(c, nargs) ==
    (0 :> c.s) @@ (1 :> c.l) @@ (2 :> c.a) @@ (3 :> c.t) @@ (4 :> c.u)
    @@ ArgumentCells(c.s, nargs) @@ ((c.s + 5) :> 99)

VMInit ==
    /\ \E nargs \in 0..MaxArgs, nlocals \in 0..MaxLocals, c \in CallerStates :
         \E body \in CalleeBodies(nargs, nlocals) :
            /\ vm_infiles = << VmFile(<<"M">>, CallProgram(nargs, nlocals, body)) >>
            /\ cpu_ram = StartRam(c, nargs)
            /\ cpu_start = StartRam(c, nargs)
    /\ vm_args = [isdir |-> FALSE, no_bootstrap |-> TRUE]
    /\ vm_pc = "start"
    /\ vm_file = 1 /\ vm_result = <<>> /\ vm_outfile = <<>>
    /\ tr_module = <<>> /\ tr_pos = 1 /\ tr_linenum = 1
    /\ tr_function = <<>> /\ tr_calls = 0 /\ tr_result = <<>>
    /\ cpu_pc = "ready" /\ cpu_rom = <<>>
    /\ cpu_A = 0 /\ cpu_D = 0 /\ cpu_PC = 0
    /\ AsmIdle /\ JackIdle /\ TokIdle

VMNext ==
    \/ VmMainStart
    \/ VmOpenFile
    \/ VmTranslateLine
    \/ VmFileDone
    \/ VmWrite
    \/ HackLoad
    \/ HackStep

SpecVM == VMInit /\ [][VMNext]_vars

(***************************************************************************)
(* Claims about the calling convention.                                    *)
(***************************************************************************)
RamSP == Read(cpu_ram, 0)
RamLCL == Read(cpu_ram, 1)
RamARG == Read(cpu_ram, 2)
RamTHIS == Read(cpu_ram, 3)
RamTHAT == Read(cpu_ram, 4)

\* The program under execution and what its source says.
Program == vm_infiles[1].stream

IsCallProgram ==
    /\ cpu_pc = "running"
    /\ Program[1].command = "call"

CallNargs == ParseInt(Program[1].args[2])

CalleeNlocals == ParseInt(Program[4].args[2])

CalleeBody == SubSeq(Program, 5, Len(Program) - 1)

\* The address control returns to: the call's return label.
ReturnAddress == LabelAddress(vm_outfile, ReturnLabel(<<>>, 1))

\* The address of the callee's first instruction.
CalleeAddress == LabelAddress(vm_outfile, NameF)

\* The address of the last instruction of the return code: its jump.
ReturnJumpAddress == Len(cpu_rom) - 1

\* The value the callee's body leaves on top of its stack.
CalleeValue ==
    LET first == CalleeBody[1]
    IN  IF Len(CalleeBody) = 3 THEN 5
        ELSE IF first.args[1] = "constant" THEN ParseInt(first.args[2])
        ELSE IF first.args[1] = "argument"
             THEN Read(cpu_start, Read(cpu_start, 0) - CallNargs)
        ELSE 0

\* C3: whenever control is at the return label of the call (which only the
\* callee's return reaches), LCL, ARG, THIS and THAT hold their values from
\* before the call, SP is (SP before the call) - nargs + 1 and RAM[SP-1] is
\* the callee's return value; the return's jump goes to that label and to
\* nowhere else, and the machine never leaves the program.
C3_CallReturnRoundTrip ==
    IsCallProgram =>
        /\ cpu_PC < Len(cpu_rom)
        /\ cpu_PC = ReturnJumpAddress => cpu_A = ReturnAddress
        /\ cpu_PC = ReturnAddress =>
              /\ RamLCL = Read(cpu_start, 1)
              /\ RamARG = Read(cpu_start, 2)
              /\ RamTHIS = Read(cpu_start, 3)
              /\ RamTHAT = Read(cpu_start, 4)
              /\ RamSP = Read(cpu_start, 0) - CallNargs + 1
              /\ Read(cpu_ram, RamSP - 1) = CalleeValue

\* C3 witness: a call with no arguments has returned: control is at the
\* return label and the return value lies where the return address was saved.
C3_Witness ==
    /\ IsCallProgram
    /\ CallNargs = 0
    /\ CalleeNlocals > 0
    /\ cpu_PC = ReturnAddress
    /\ RamSP = Read(cpu_start, 0) + 1
    /\ Read(cpu_ram, Read(cpu_start, 0)) = CalleeValue

\* C4: when the call's prelude has jumped to the callee, RAM[s..s+4] hold
\* the return address and the caller's LCL, ARG, THIS, THAT in that order,
\* SP = s+5, LCL = s+5 and ARG = s - nargs, s being SP before the call.
C4_CallFrameLayout ==
    (IsCallProgram /\ cpu_PC = CalleeAddress) =>
        LET s == Read(cpu_start, 0)
        IN  /\ Read(cpu_ram, s) = ReturnAddress
            /\ Read(cpu_ram, s + 1) = Read(cpu_start, 1)
            /\ Read(cpu_ram, s + 2) = Read(cpu_start, 2)
            /\ Read(cpu_ram, s + 3) = Read(cpu_start, 3)
            /\ Read(cpu_ram, s + 4) = Read(cpu_start, 4)
            /\ RamSP = s + 5
            /\ RamLCL = s + 5
            /\ RamARG = s - CallNargs

\* C4 witness: the specification's example: s=290, l=300, a=280, t=3000,
\* u=3010, nargs=2 has reached the callee with SP=295, LCL=295, ARG=288.
C4_Witness ==
    /\ IsCallProgram /\ cpu_PC = CalleeAddress
    /\ CallNargs = 2
    /\ Read(cpu_start, 0) = 290 /\ Read(cpu_start, 1) = 300
    /\ Read(cpu_start, 2) = 280 /\ Read(cpu_start, 3) = 3000
    /\ Read(cpu_start, 4) = 3010
    /\ RamSP = 295 /\ RamLCL = 295 /\ RamARG = 288
    /\ Read(cpu_ram, 291) = 300 /\ Read(cpu_ram, 292) = 280
    /\ Read(cpu_ram, 293) = 3000 /\ Read(cpu_ram, 294) = 3010

(***************************************************************************)
(* The Jack compiler (projects/11/compiler.py).  A token is a record       *)
(* [token_type, value]; an output line is a record [op, note] that stands  *)
(* for the text `op` when note is empty, `op  // note` when both are       *)
(* given, and the comment line `// note` when op is empty.                 *)
(***************************************************************************)
PRIMITIVE_TYPES == {"int", "char", "boolean"}

CLASS_VAR_TYPES == {"field", "static"}

SUBROUTINE_TYPES == {"constructor", "function", "method"}

STATEMENT_TYPES == {"let", "if", "while", "do", "return"}

KEYWORD_CONSTANTS == {"true", "false", "null", "this"}

OPERATORS ==
    ("+" :> "add") @@ ("-" :> "sub") @@ ("*" :> "call Math.multiply 2")
    @@ ("/" :> "call Math.divide 2") @@ ("&" :> "and") @@ ("|" :> "or")
    @@ ("<" :> "lt") @@ (">" :> "gt") @@ ("=" :> "eq")

UNARY_OPERATORS == ("-" :> "neg") @@ ("~" :> "not")

Token(token_type, value) == [token_type |-> token_type, value |-> value]

Code(op) == [op |-> op, note |-> ""]

Noted(op, note) == [op |-> op, note |-> note]

Comment(note) == [op |-> "", note |-> note]

\* The kinds a symbol table counts.
Kinds == {"static", "field", "argument", "local"}

\* SymbolTable(): no symbols, every counter (a defaultdict) reads 0.
SymbolTable == [symbols |-> EmptyDict, counters |-> [k \in Kinds |-> 0]]

\* add_symbol without the counter of the kind being advanced
add_symbol_SameIndex(table, name, typ, kind) ==
    [symbols |-> (name :> [typ |-> typ, kind |-> kind,
                           index |-> table.counters[kind]]) @@ table.symbols,
     counters |-> table.counters]

\* SymbolTable.add_symbol, when the name is new.
add_symbol(table, name, typ, kind) ==
    [symbols |-> (name :> [typ |-> typ, kind |-> kind,
                           index |-> table.counters[kind]]) @@ table.symbols,
     counters |-> [table.counters EXCEPT ![kind] = @ + 1]]

get_count(table, kind) == table.counters[kind]

\* The compiler's state as one record; err is set once an exception is raised,
\* after which nothing more is consumed or written.
CompilerState ==
    [pos |-> jk_pos, out |-> jk_out, err |-> FALSE,
     class_name |-> jk_class_name, class_symbols |-> jk_class_symbols,
     subroutine_symbols |-> jk_subroutine_symbols,
     label_counter |-> jk_label_counter, count |-> 0]

Raise(st) == [st EXCEPT !.err = TRUE]

write_line(st, line) ==
    IF st.err THEN st ELSE [st EXCEPT !.out = Append(@, line)]

write_lines(st, lines) ==
    IF st.err THEN st ELSE [st EXCEPT !.out = @ \o lines]

\* type_required=None and value_required=None.
NoType == "None"

NoValue == {}

\* get_token(offset) succeeds.
Available(st, offset) == st.pos + offset < Len(jk_tokens)

get_token(st, offset) == jk_tokens[st.pos + offset + 1]

match_token(st, type_required, value_required, offset) ==
    /\ Available(st, offset)
    /\ (type_required = NoType
        \/ get_token(st, offset).token_type = type_required)
    /\ (value_required = NoValue
        \/ get_token(st, offset).value \in value_required)

consume_token(st, type_required, value_required) ==
    IF st.err THEN st
    ELSE IF ~match_token(st, type_required, value_required, 0) THEN Raise(st)
    ELSE [st EXCEPT !.pos = @ + 1]

\* The value of the token the next consume_token returns.
NextValue(st) ==
    IF ~st.err /\ Available(st, 0) THEN get_token(st, 0).value ELSE ""

IsDeclared(st, name) ==
    \/ name \in DOMAIN st.subroutine_symbols.symbols
    \/ name \in DOMAIN st.class_symbols.symbols

lookup_symbol(st, name) ==
    IF name \in DOMAIN st.subroutine_symbols.symbols
    THEN st.subroutine_symbols.symbols[name]
    ELSE st.class_symbols.symbols[name]

get_symbol_code(symbol) ==
    (IF symbol.kind = "field" THEN "this" ELSE symbol.kind)
    \o " " \o ToString(symbol.index)

compiler_make_label(st, label) ==
    st.class_name \o ".L" \o ToString(st.label_counter) \o "." \o label

Only(S) == CHOOSE r \in S : TRUE

\* The statements of a method, run in sequence.  Step(k, h) is the state the
\* k-th statement leaves; h[1] is the state the method starts in and h[j + 1]
\* the state after the j-th statement, so h[k] is the state the k-th statement
\* starts in.  The value is the state after the n-th statement.  The
\* statements are run in halves, each half after the one before it.
Steps(st, n, Step(_, _)) ==
    LET L(k, h) == IF n < k THEN h ELSE Append(h, Step(k, h))
        T2(k, h) == CHOOSE r \in { L(k + 1, a) : a \in { L(k, h) } } : TRUE
        T4(k, h) == CHOOSE r \in { T2(k + 2, a) : a \in { T2(k, h) } } : TRUE
        T8(k, h) == CHOOSE r \in { T4(k + 4, a) : a \in { T4(k, h) } } : TRUE
        T16(k, h) == CHOOSE r \in { T8(k + 8, a) : a \in { T8(k, h) } } : TRUE
    IN  (IF n <= 2 THEN T2(1, << st >>)
         ELSE IF n <= 4 THEN T4(1, << st >>)
         ELSE IF n <= 8 THEN T8(1, << st >>)
         ELSE T16(1, << st >>))[n + 1]

\* add_symbol that counts the kind before it refuses a duplicate
DeclareSymbol_CountsFirst(st, scope, name, typ, kind) ==
    IF st.err THEN st
    ELSE IF scope = "class" THEN
        IF name \in DOMAIN st.class_symbols.symbols
        THEN Raise([st EXCEPT !.class_symbols.counters[kind] = @ + 1])
        ELSE [st EXCEPT !.class_symbols = add_symbol(@, name, typ, kind)]
    ELSE
        IF name \in DOMAIN st.subroutine_symbols.symbols
        THEN Raise([st EXCEPT !.subroutine_symbols.counters[kind] = @ + 1])
        ELSE [st EXCEPT !.subroutine_symbols = add_symbol(@, name, typ, kind)]

\* self.<scope>_symbols.add_symbol(name, typ, kind), raising on a duplicate.
DeclareSymbol(st, scope, name, typ, kind) ==
    IF st.err THEN st
    ELSE IF scope = "class" THEN
        IF name \in DOMAIN st.class_symbols.symbols THEN Raise(st)
        ELSE [st EXCEPT !.class_symbols = add_symbol(@, name, typ, kind)]
    ELSE
        IF name \in DOMAIN st.subroutine_symbols.symbols THEN Raise(st)
        ELSE [st EXCEPT !.subroutine_symbols = add_symbol(@, name, typ, kind)]

compile_identifier(st) == consume_token(st, "identifier", NoValue)

compile_type(st) ==
    IF st.err THEN st
    ELSE IF ~(\/ match_token(st, "keyword", PRIMITIVE_TYPES, 0)
              \/ match_token(st, "identifier", NoValue, 0))
    THEN Raise(st)
    ELSE consume_token(st, NoType, NoValue)

\* while self.match_token('symbol', ','): one more name of the declaration
RECURSIVE MoreNames(_, _, _, _)
MoreNames(st, scope, vartype, kind) ==
    IF st.err \/ ~match_token(st, "symbol", {","}, 0) THEN st
    ELSE Steps(st, 4, LAMBDA k, h :
        CASE k = 1 -> consume_token(h[1], NoType, NoValue)
          [] k = 2 -> compile_identifier(h[2])
          [] k = 3 -> DeclareSymbol(h[3], scope, NextValue(h[2]), vartype, kind)
          [] k = 4 -> MoreNames(h[4], scope, vartype, kind))

compile_class_var_dec(st) ==
    Steps(st, 6, LAMBDA k, h :
        CASE k = 1 -> consume_token(h[1], "keyword", CLASS_VAR_TYPES)
          [] k = 2 -> compile_type(h[2])
          [] k = 3 -> compile_identifier(h[3])
          [] k = 4 -> DeclareSymbol(h[4], "class", NextValue(h[3]),
                                    NextValue(h[2]), NextValue(h[1]))
          [] k = 5 -> MoreNames(h[5], "class", NextValue(h[2]), NextValue(h[1]))
          [] k = 6 -> consume_token(h[6], "symbol", {";"}))

compile_var_dec(st) ==
    Steps(st, 6, LAMBDA k, h :
        CASE k = 1 -> consume_token(h[1], "keyword", {"var"})
          [] k = 2 -> compile_type(h[2])
          [] k = 3 -> compile_identifier(h[3])
          [] k = 4 -> DeclareSymbol(h[4], "subroutine", NextValue(h[3]),
                                    NextValue(h[2]), "local")
          [] k = 5 -> MoreNames(h[5], "subroutine", NextValue(h[2]), "local")
          [] k = 6 -> consume_token(h[6], "symbol", {";"}))

\* One parameter: type varName.
Parameter(st) ==
    Steps(st, 3, LAMBDA k, h :
        CASE k = 1 -> compile_type(h[1])
          [] k = 2 -> compile_identifier(h[2])
          [] k = 3 -> DeclareSymbol(h[3], "subroutine", NextValue(h[2]),
                                    NextValue(h[1]), "argument"))

RECURSIVE MoreParameters(_)
MoreParameters(st) ==
    IF st.err \/ ~match_token(st, "symbol", {","}, 0) THEN st
    ELSE Steps(st, 3, LAMBDA k, h :
        CASE k = 1 -> consume_token(h[1], NoType, NoValue)
          [] k = 2 -> Parameter(h[2])
          [] k = 3 -> MoreParameters(h[3]))

\* if not self.match_token('symbol', ')'): the first parameter
FirstParameter(st) ==
    IF st.err \/ match_token(st, "symbol", {")"}, 0) THEN st
    ELSE Parameter(st)

compile_parameter_list(st) ==
    Steps(st, 2, LAMBDA k, h :
        CASE k = 1 -> FirstParameter(h[1])
          [] k = 2 -> MoreParameters(h[2]))

\* while self.match_token('keyword', 'var'): self.compile_var_dec()
RECURSIVE VarDecs(_)
VarDecs(st) ==
    IF st.err \/ ~match_token(st, "keyword", {"var"}, 0) THEN st
    ELSE Steps(st, 2, LAMBDA k, h :
        CASE k = 1 -> compile_var_dec(h[1])
          [] k = 2 -> VarDecs(h[2]))

\* push constant 0 / pop local i for i in range(nlocals), after a comment line
InitialiseLocals(nlocals) ==
    IF nlocals > 0
    THEN << Comment("Initialise " \o ToString(nlocals) \o " local variables") >>
         \o [k \in 1..(2 * nlocals) |->
                IF k % 2 = 1 THEN Code("push constant 0")
                ELSE Code("pop local " \o ToString((k \div 2) - 1))]
    ELSE <<>>

\* The set-up of `this`: allocation in a constructor, argument 0 in a method.
ReceiverSetUp(subtype, size) ==
    IF subtype = "constructor"
    THEN << Code("push constant " \o ToString(size)),
            Code("call Memory.alloc 1"), Code("pop pointer 0") >>
    ELSE IF subtype = "method"
    THEN << Code("push argument 0"), Code("pop pointer 0") >>
    ELSE <<>>

\* A different order: the receiver is set up before the locals are zeroed.
SubroutineEntry_ReceiverFirst(subtype, nlocals, size) ==
    ReceiverSetUp(subtype, size) \o InitialiseLocals(nlocals)

\* What compile_subroutine_dec writes between the function line and the body.
SubroutineEntry(subtype, nlocals, size) ==
    InitialiseLocals(nlocals) \o ReceiverSetUp(subtype, size)

\* A different order: `add` is written before the push of the base.
ArrayAddress_AddFirst(code, name) ==
    << Code("add"), Noted("push " \o code, name \o "[]") >>

\* What follows the code of the index expression of name[...]: the push of
\* the base and the add.
ArrayAddress(code, name) ==
    << Noted("push " \o code, name \o "[]"), Code("add") >>

\* The characters and character codes of the string constants of the inputs.
Chars(value) ==
    IF value = "hi" THEN << "h", "i" >>
    ELSE IF value = "a" THEN << "a" >>
    ELSE <<>>

Ord(ch) == IF ch = "h" THEN 104 ELSE IF ch = "i" THEN 105 ELSE 97

StringConstantLines(value) ==
    << Comment("Initialise string constant \"" \o value \o "\""),
       Code("push constant " \o ToString(Len(Chars(value)))),
       Code("call String.new 1") >>
    \o [k \in 1..(2 * Len(Chars(value))) |->
           IF k % 2 = 1
           THEN Code("push constant " \o ToString(Ord(Chars(value)[(k + 1) \div 2])))
           ELSE Code("call String.appendChar 2")]

\* The methods that call one another, by name: Compile(method, st) is
\* self.<method>() in state st.
RECURSIVE Compile(_, _)

\* The statement the keyword at the front of the tokens opens.
Statement(st) ==
    IF match_token(st, "keyword", {"let"}, 0)
    THEN Compile("compile_let_statement", st)
    ELSE IF match_token(st, "keyword", {"if"}, 0)
    THEN Compile("compile_if_statement", st)
    ELSE IF match_token(st, "keyword", {"while"}, 0)
    THEN Compile("compile_while_statement", st)
    ELSE IF match_token(st, "keyword", {"do"}, 0)
    THEN Compile("compile_do_statement", st)
    ELSE Compile("compile_return_statement", st)

compile_statements(st) ==
    IF st.err \/ ~match_token(st, "keyword", STATEMENT_TYPES, 0) THEN st
    ELSE Steps(st, 2, LAMBDA k, h :
        CASE k = 1 -> Statement(h[1])
          [] k = 2 -> Compile("compile_statements", h[2]))

\* The let statement that aligns `that` on the target before the right-hand
\* side is evaluated.
Assignment_AlignFirst(st, code, name) ==
    IF match_token(st, "symbol", {"["}, 0) THEN
        Steps(st, 8, LAMBDA k, h :
            CASE k = 1 -> consume_token(h[1], NoType, NoValue)
              [] k = 2 -> Compile("compile_expression", h[2])
              [] k = 3 -> consume_token(h[3], "symbol", {"]"})
              [] k = 4 -> write_lines(h[4], ArrayAddress(code, name))
              [] k = 5 -> write_line(h[5], Code("pop pointer 1"))
              [] k = 6 -> consume_token(h[6], "symbol", {"="})
              [] k = 7 -> Compile("compile_expression", h[7])
              [] k = 8 -> write_line(h[8], Code("pop that 0")))
    ELSE
        Steps(st, 3, LAMBDA k, h :
            CASE k = 1 -> consume_token(h[1], "symbol", {"="})
              [] k = 2 -> Compile("compile_expression", h[2])
              [] k = 3 -> write_line(h[3], Noted("pop " \o code, name)))

\* The let statement after `let name`, name being declared with VM code `code`.
Assignment(st, code, name) ==
    IF match_token(st, "symbol", {"["}, 0) THEN
        Steps(st, 7, LAMBDA k, h :
            CASE k = 1 -> consume_token(h[1], NoType, NoValue)
              [] k = 2 -> Compile("compile_expression", h[2])
              [] k = 3 -> consume_token(h[3], "symbol", {"]"})
              [] k = 4 -> write_lines(h[4], ArrayAddress(code, name))
              [] k = 5 -> consume_token(h[5], "symbol", {"="})
              [] k = 6 -> Compile("compile_expression", h[6])
              [] k = 7 -> write_lines(h[7],
                              << Code("pop temp 0"), Code("pop pointer 1"),
                                 Code("push temp 0"), Code("pop that 0") >>))
    ELSE
        Steps(st, 3, LAMBDA k, h :
            CASE k = 1 -> consume_token(h[1], "symbol", {"="})
              [] k = 2 -> Compile("compile_expression", h[2])
              [] k = 3 -> write_line(h[3], Noted("pop " \o code, name)))

\* symbol = self.lookup_symbol(name) and what follows it in the let statement
AssignmentTo(st, name) ==
    IF st.err THEN st
    ELSE IF ~IsDeclared(st, name) THEN Raise(st)
    ELSE Assignment(st, get_symbol_code(lookup_symbol(st, name)), name)

compile_let_statement(st) ==
    Steps(st, 4, LAMBDA k, h :
        CASE k = 1 -> consume_token(h[1], "keyword", {"let"})
          [] k = 2 -> compile_identifier(h[2])
          [] k = 3 -> AssignmentTo(h[3], NextValue(h[2]))
          [] k = 4 -> consume_token(h[4], "symbol", {";"}))

\* ( 'else' '{' statements '}' )?
ElseBranch(st) ==
    IF ~st.err /\ match_token(st, "keyword", {"else"}, 0) THEN
        Steps(st, 4, LAMBDA k, h :
            CASE k = 1 -> consume_token(h[1], NoType, NoValue)
              [] k = 2 -> consume_token(h[2], "symbol", {"{"})
              [] k = 3 -> Compile("compile_statements", h[3])
              [] k = 4 -> consume_token(h[4], "symbol", {"}"}))
    ELSE st

\* make_label without the counter being advanced
NextLabel_Same(st) == st

\* self.label_counter += 1
NextLabel(st) == IF st.err THEN st ELSE [st EXCEPT !.label_counter = @ + 1]

\* h[7] is the state in which the two labels of the statement are made.
compile_if_statement(st) ==
    Steps(st, 14, LAMBDA k, h :
        CASE k = 1 -> consume_token(h[1], "keyword", {"if"})
          [] k = 2 -> consume_token(h[2], "symbol", {"("})
          [] k = 3 -> Compile("compile_expression", h[3])
          [] k = 4 -> consume_token(h[4], "symbol", {")"})
          [] k = 5 -> write_line(h[5], Code("not"))
          [] k = 6 -> NextLabel(h[6])
          [] k = 7 -> write_line(h[7], Code("if-goto "
                          \o compiler_make_label(h[7], "ELSE")))
          [] k = 8 -> consume_token(h[8], "symbol", {"{"})
          [] k = 9 -> Compile("compile_statements", h[9])
          [] k = 10 -> consume_token(h[10], "symbol", {"}"})
          [] k = 11 -> write_line(h[11], Code("goto "
                          \o compiler_make_label(h[7], "ENDIF")))
          [] k = 12 -> write_line(h[12], Code("label "
                          \o compiler_make_label(h[7], "ELSE")))
          [] k = 13 -> ElseBranch(h[13])
          [] k = 14 -> write_line(h[14], Code("label "
                          \o compiler_make_label(h[7], "ENDIF"))))

\* h[2] is the state in which the two labels of the statement are made.
compile_while_statement(st) ==
    Steps(st, 13, LAMBDA k, h :
        CASE k = 1 -> NextLabel(h[1])
          [] k = 2 -> write_line(h[2], Code("label "
                          \o compiler_make_label(h[2], "WHILE")))
          [] k = 3 -> consume_token(h[3], "keyword", {"while"})
          [] k = 4 -> consume_token(h[4], "symbol", {"("})
          [] k = 5 -> Compile("compile_expression", h[5])
          [] k = 6 -> write_line(h[6], Code("not"))
          [] k = 7 -> write_line(h[7], Code("if-goto "
                          \o compiler_make_label(h[2], "ENDWHILE")))
          [] k = 8 -> consume_token(h[8], "symbol", {")"})
          [] k = 9 -> consume_token(h[9], "symbol", {"{"})
          [] k = 10 -> Compile("compile_statements", h[10])
          [] k = 11 -> consume_token(h[11], "symbol", {"}"})
          [] k = 12 -> write_line(h[12], Code("goto "
                          \o compiler_make_label(h[2], "WHILE")))
          [] k = 13 -> write_line(h[13], Code("label "
                          \o compiler_make_label(h[2], "ENDWHILE"))))

\* A do statement that leaves the result of the call on the stack.
compile_do_statement_KeepResult(st) ==
    Steps(st, 3, LAMBDA k, h :
        CASE k = 1 -> consume_token(h[1], "keyword", {"do"})
          [] k = 2 -> Compile("compile_subroutine_call", h[2])
          [] k = 3 -> consume_token(h[3], "symbol", {";"}))

compile_do_statement(st) ==
    Steps(st, 4, LAMBDA k, h :
        CASE k = 1 -> consume_token(h[1], "keyword", {"do"})
          [] k = 2 -> Compile("compile_subroutine_call", h[2])
          [] k = 3 -> consume_token(h[3], "symbol", {";"})
          [] k = 4 -> write_line(h[4], Noted("pop temp 0", "discard void return")))

\* expression?
ReturnValue(st) ==
    IF st.err THEN st
    ELSE IF match_token(st, "symbol", {";"}, 0)
    THEN write_line(st, Noted("push constant 0", "void return"))
    ELSE Compile("compile_expression", st)

compile_return_statement(st) ==
    Steps(st, 4, LAMBDA k, h :
        CASE k = 1 -> consume_token(h[1], "keyword", {"return"})
          [] k = 2 -> ReturnValue(h[2])
          [] k = 3 -> consume_token(h[3], "symbol", {";"})
          [] k = 4 -> write_line(h[4], Code("return")))

compile_expression(st) ==
    Steps(st, 2, LAMBDA k, h :
        CASE k = 1 -> Compile("compile_term", h[1])
          [] k = 2 -> Compile("MoreTerms", h[2]))

\* while self.match_token('symbol', OPERATORS.keys()): op term
MoreTerms(st) ==
    IF st.err \/ ~match_token(st, "symbol", DOMAIN OPERATORS, 0) THEN st
    ELSE Steps(st, 4, LAMBDA k, h :
        CASE k = 1 -> consume_token(h[1], NoType, NoValue)
          [] k = 2 -> Compile("compile_term", h[2])
          [] k = 3 -> write_line(h[3], Code(OPERATORS[NextValue(h[1])]))
          [] k = 4 -> Compile("MoreTerms", h[4]))

\* true | false | null | this
KeywordConstantLines(value) ==
    IF value = "true"
    THEN << Noted("push constant 1", "true"), Code("neg") >>
    ELSE IF value \in {"null", "false"}
    THEN << Noted("push constant 0", value) >>
    ELSE << Noted("push pointer 0", "this") >>

\* symbol = self.lookup_symbol(name): raises when the name is not declared
RequireSymbol(st, name) ==
    IF st.err THEN st
    ELSE IF ~IsDeclared(st, name) THEN Raise(st)
    ELSE st

\* The VM code of a name that is declared.
SymbolCode(st, name) ==
    IF IsDeclared(st, name) THEN get_symbol_code(lookup_symbol(st, name))
    ELSE ""

\* varName '[' expression ']'
ArrayElement(st) ==
    Steps(st, 7, LAMBDA k, h :
        CASE k = 1 -> compile_identifier(h[1])
          [] k = 2 -> RequireSymbol(h[2], NextValue(h[1]))
          [] k = 3 -> consume_token(h[3], "symbol", {"["})
          [] k = 4 -> Compile("compile_expression", h[4])
          [] k = 5 -> consume_token(h[5], "symbol", {"]"})
          [] k = 6 -> write_lines(h[6], ArrayAddress(
                          SymbolCode(h[3], NextValue(h[1])), NextValue(h[1])))
          [] k = 7 -> write_lines(h[7], << Code("pop pointer 1"),
                                           Code("push that 0") >>))

\* varName
VariableReference(st) ==
    Steps(st, 3, LAMBDA k, h :
        CASE k = 1 -> compile_identifier(h[1])
          [] k = 2 -> RequireSymbol(h[2], NextValue(h[1]))
          [] k = 3 -> write_line(h[3], Noted("push "
                          \o SymbolCode(h[3], NextValue(h[1])), NextValue(h[1]))))

\* The term that consumes its first token before anything else.
TermAfterToken(st) ==
    IF match_token(st, "integerConstant", NoValue, 0) THEN
        Steps(st, 2, LAMBDA k, h :
            CASE k = 1 -> consume_token(h[1], NoType, NoValue)
              [] k = 2 -> write_line(h[2], Code("push constant "
                              \o NextValue(h[1]))))
    ELSE IF match_token(st, "keyword", KEYWORD_CONSTANTS, 0) THEN
        Steps(st, 2, LAMBDA k, h :
            CASE k = 1 -> consume_token(h[1], NoType, NoValue)
              [] k = 2 -> write_lines(h[2], KeywordConstantLines(NextValue(h[1]))))
    ELSE IF match_token(st, "stringConstant", NoValue, 0) THEN
        Steps(st, 2, LAMBDA k, h :
            CASE k = 1 -> consume_token(h[1], NoType, NoValue)
              [] k = 2 -> write_lines(h[2], StringConstantLines(NextValue(h[1]))))
    ELSE IF match_token(st, "symbol", {"("}, 0) THEN
        Steps(st, 3, LAMBDA k, h :
            CASE k = 1 -> consume_token(h[1], NoType, NoValue)
              [] k = 2 -> Compile("compile_expression", h[2])
              [] k = 3 -> consume_token(h[3], "symbol", {")"}))
    ELSE
        Steps(st, 3, LAMBDA k, h :
            CASE k = 1 -> consume_token(h[1], NoType, NoValue)
              [] k = 2 -> Compile("compile_term", h[2])
              [] k = 3 -> write_line(h[3], Code(UNARY_OPERATORS[NextValue(h[1])])))

compile_term(st) ==
    IF st.err THEN st
    ELSE IF \/ match_token(st, "integerConstant", NoValue, 0)
            \/ match_token(st, "keyword", KEYWORD_CONSTANTS, 0)
            \/ match_token(st, "stringConstant", NoValue, 0)
            \/ match_token(st, "symbol", {"("}, 0)
            \/ match_token(st, "symbol", DOMAIN UNARY_OPERATORS, 0)
    THEN TermAfterToken(st)
    ELSE IF match_token(st, "symbol", {"["}, 1) THEN ArrayElement(st)
    ELSE IF match_token(st, "symbol", {".", "("}, 1)
    THEN Compile("compile_subroutine_call", st)
    ELSE VariableReference(st)

\* '(' expressionList ')' and the call, nargs arguments being pushed already
CallArguments(st, class_name, func_name, nargs) ==
    Steps(st, 4, LAMBDA k, h :
        CASE k = 1 -> consume_token(h[1], "symbol", {"("})
          [] k = 2 -> Compile("compile_expression_list", h[2])
          [] k = 3 -> consume_token(h[3], "symbol", {")"})
          [] k = 4 -> write_line(h[4], Code("call " \o class_name \o "."
                          \o func_name \o " " \o ToString(nargs + h[3].count))))

\* The call on a name, no receiver being pushed whatever the name is
QualifiedCall_NoReceiver(st, first, func_name) ==
    CallArguments(st, first, func_name, 0)

\* classOrObjectName '.' functionName '(' ... ')', the names consumed
QualifiedCall(st, first, func_name) ==
    IF ~st.err /\ IsDeclared(st, first)
    THEN Steps(st, 2, LAMBDA k, h :
        CASE k = 1 -> write_line(h[1], Noted("push "
                          \o SymbolCode(h[1], first), first))
          [] k = 2 -> CallArguments(h[2], lookup_symbol(st, first).typ,
                                    func_name, 1))
    ELSE CallArguments(st, first, func_name, 0)

\* The call after its first name: name '.' name '(' ... ')' or '(' ... ')'
CallOf(st, first) ==
    IF ~st.err /\ match_token(st, "symbol", {"."}, 0) THEN
        Steps(st, 3, LAMBDA k, h :
            CASE k = 1 -> consume_token(h[1], NoType, NoValue)
              [] k = 2 -> compile_identifier(h[2])
              [] k = 3 -> QualifiedCall(h[3], first, NextValue(h[2])))
    ELSE
        Steps(st, 2, LAMBDA k, h :
            CASE k = 1 -> write_line(h[1], Noted("push pointer 0", "this"))
              [] k = 2 -> CallArguments(h[2], st.class_name, first, 1))

compile_subroutine_call(st) ==
    Steps(st, 2, LAMBDA k, h :
        CASE k = 1 -> compile_identifier(h[1])
          [] k = 2 -> CallOf(h[2], NextValue(h[1])))

\* count = <n>
SetCount(st, n) == [st EXCEPT !.count = n]

\* Leaves the number of expressions compiled in the state's count.
compile_expression_list(st) ==
    IF st.err THEN st
    ELSE IF match_token(st, "symbol", {")"}, 0) THEN SetCount(st, 0)
    ELSE Steps(st, 3, LAMBDA k, h :
        CASE k = 1 -> Compile("compile_expression", h[1])
          [] k = 2 -> SetCount(h[2], 1)
          [] k = 3 -> Compile("MoreExpressions", h[3]))

\* while self.match_token('symbol', ','): one more expression
\* (the count of the list survives the calls inside the expression)
MoreExpressions(st) ==
    IF st.err \/ ~match_token(st, "symbol", {","}, 0) THEN st
    ELSE Steps(st, 4, LAMBDA k, h :
        CASE k = 1 -> consume_token(h[1], NoType, NoValue)
          [] k = 2 -> Compile("compile_expression", h[2])
          [] k = 3 -> SetCount(h[3], h[1].count + 1)
          [] k = 4 -> Compile("MoreExpressions", h[4]))

Compile(method, st) ==
    CASE method = "compile_statements" -> compile_statements(st)
      [] method = "compile_let_statement" -> compile_let_statement(st)
      [] method = "compile_if_statement" -> compile_if_statement(st)
      [] method = "compile_while_statement" -> compile_while_statement(st)
      [] method = "compile_do_statement" -> compile_do_statement(st)
      [] method = "compile_return_statement" -> compile_return_statement(st)
      [] method = "compile_expression" -> compile_expression(st)
      [] method = "MoreTerms" -> MoreTerms(st)
      [] method = "compile_term" -> compile_term(st)
      [] method = "compile_subroutine_call" -> compile_subroutine_call(st)
      [] method = "compile_expression_list" -> compile_expression_list(st)
      [] method = "MoreExpressions" -> MoreExpressions(st)

\* ('void' | type)
ReturnType(st) ==
    IF ~st.err /\ match_token(st, "keyword", {"void"}, 0)
    THEN consume_token(st, NoType, NoValue)
    ELSE compile_type(st)

\* self.subroutine_symbols = SymbolTable()
NewSubroutineSymbols(st) ==
    IF st.err THEN st ELSE [st EXCEPT !.subroutine_symbols = SymbolTable]

\* No subroutine declares `this`
DeclareThis_Never(st, subtype) == st

\* if subtype == 'method': `this` is the first argument
DeclareThis(st, subtype) ==
    IF subtype = "method"
    THEN DeclareSymbol(st, "subroutine", "this", st.class_name, "argument")
    ELSE st

\* f"function {self.class_name}.{name} {nlocals}"
FunctionHeader(st, name) ==
    Code("function " \o st.class_name \o "." \o name \o " "
         \o ToString(get_count(st.subroutine_symbols, "local")))

compile_subroutine_dec(st) ==
    Steps(st, 14, LAMBDA k, h :
        CASE k = 1 -> consume_token(h[1], "keyword", SUBROUTINE_TYPES)
          [] k = 2 -> ReturnType(h[2])
          [] k = 3 -> compile_identifier(h[3])
          [] k = 4 -> NewSubroutineSymbols(h[4])
          [] k = 5 -> DeclareThis(h[5], NextValue(h[1]))
          [] k = 6 -> consume_token(h[6], "symbol", {"("})
          [] k = 7 -> compile_parameter_list(h[7])
          [] k = 8 -> consume_token(h[8], "symbol", {")"})
          [] k = 9 -> consume_token(h[9], "symbol", {"{"})
          [] k = 10 -> VarDecs(h[10])
          [] k = 11 -> write_line(h[11], FunctionHeader(h[11], NextValue(h[3])))
          [] k = 12 -> write_lines(h[12], SubroutineEntry(NextValue(h[1]),
                           get_count(h[12].subroutine_symbols, "local"),
                           get_count(h[12].class_symbols, "field")))
          [] k = 13 -> Compile("compile_statements", h[13])
          [] k = 14 -> consume_token(h[14], "symbol", {"}"}))

\* self.class_name = self.compile_identifier()
SetClassName(st, name) ==
    IF st.err THEN st ELSE [st EXCEPT !.class_name = name]

\* 'class' identifier '{'
ClassOpen(st) ==
    Steps(st, 4, LAMBDA k, h :
        CASE k = 1 -> consume_token(h[1], "keyword", {"class"})
          [] k = 2 -> compile_identifier(h[2])
          [] k = 3 -> SetClassName(h[3], NextValue(h[2]))
          [] k = 4 -> consume_token(h[4], "symbol", {"{"}))

\* The compiler's variables after a step that ended in state st.
Becomes(st, pc) ==
    /\ jk_pc' = IF st.err THEN "error" ELSE pc
    /\ jk_pos' = st.pos
    /\ jk_out' = st.out
    /\ jk_class_name' = st.class_name
    /\ jk_class_symbols' = st.class_symbols
    /\ jk_subroutine_symbols' = st.subroutine_symbols
    /\ jk_label_counter' = st.label_counter
    /\ UNCHANGED jk_tokens
    /\ UNCHANGED <<asmVars, vmVars, cpuVars, tokVars>>

\* compile_class: 'class' identifier '{'
JackClassOpen ==
    /\ jk_pc = "class"
    /\ \E st \in {CompilerState} :
         \E st1 \in {ClassOpen(st)} : Becomes(st1, "class_vars")

\* compile_class: while self.match_token('keyword', CLASS_VAR_TYPES)
JackClassVarDec ==
    /\ jk_pc = "class_vars"
    /\ \E st \in {CompilerState} :
         /\ match_token(st, "keyword", CLASS_VAR_TYPES, 0)
         /\ \E st1 \in {compile_class_var_dec(st)} : Becomes(st1, "class_vars")

\* compile_class: while self.match_token('keyword', SUBROUTINE_TYPES)
JackSubroutineDec ==
    /\ \E st \in {CompilerState} :
         /\ \/ jk_pc = "class_vars"
               /\ ~match_token(st, "keyword", CLASS_VAR_TYPES, 0)
            \/ jk_pc = "subroutines"
         /\ match_token(st, "keyword", SUBROUTINE_TYPES, 0)
         /\ \E st1 \in {compile_subroutine_dec(st)} : Becomes(st1, "subroutines")

\* compile_class: self.consume_token('symbol', '}')
JackClassClose ==
    /\ \E st \in {CompilerState} :
         /\ \/ jk_pc = "class_vars"
               /\ ~match_token(st, "keyword", CLASS_VAR_TYPES, 0)
            \/ jk_pc = "subroutines"
         /\ ~match_token(st, "keyword", SUBROUTINE_TYPES, 0)
         /\ \E st1 \in {consume_token(st, "symbol", {"}"})} : Becomes(st1, "done")

(***************************************************************************)
(* Jack sources, as the tokens they consist of.                            *)
(***************************************************************************)
Keyword(value) == Token("keyword", value)

Symbol(value) == Token("symbol", value)

Identifier(value) == Token("identifier", value)

IntegerConstant(value) == Token("integerConstant", value)

StringConstant(value) == Token("stringConstant", value)

FieldNames == << "x", "y", "z", "w" >>

VarNames == << "a", "i", "j", "k", "m" >>

\* name, name, ... for the first n names
RECURSIVE NameList(_, _)
NameList(names, n) ==
    IF n = 0 THEN <<>>
    ELSE IF n = 1 THEN << Identifier(names[1]) >>
    ELSE NameList(names, n - 1) \o << Symbol(","), Identifier(names[n]) >>

\* field int x, y, ...;
FieldDecs(n) ==
    IF n = 0 THEN <<>>
    ELSE << Keyword("field"), Keyword("int") >> \o NameList(FieldNames, n)
         \o << Symbol(";") >>

\* var Array a; var int i, j, ...;
VarDecTokens(n) ==
    IF n = 0 THEN <<>>
    ELSE << Keyword("var"), Identifier("Array"), Identifier("a"), Symbol(";") >>
         \o (IF n = 1 THEN <<>>
             ELSE << Keyword("var"), Keyword("int") >>
                  \o NameList(Tail(VarNames), n - 1) \o << Symbol(";") >>)

ReturnVoid == << Keyword("return"), Symbol(";") >>

ArrayTerm(a, e) == << Identifier(a), Symbol("[") >> \o e \o << Symbol("]") >>

\* let a[i] = a[j];
LetArrayToArray ==
    << Keyword("let") >> \o ArrayTerm("a", << Identifier("i") >>)
    \o << Symbol("=") >> \o ArrayTerm("a", << Identifier("j") >>)
    \o << Symbol(";") >>

\* The bodies of the subroutines of the inputs.
JackBodies ==
    { ReturnVoid,
      LetArrayToArray \o ReturnVoid,
      \* let i = a[j]; return i;
      << Keyword("let"), Identifier("i"), Symbol("=") >>
        \o ArrayTerm("a", << Identifier("j") >>)
        \o << Symbol(";"), Keyword("return"), Identifier("i"), Symbol(";") >>,
      \* let a[i + 1] = 2;
      << Keyword("let") >>
        \o ArrayTerm("a", << Identifier("i"), Symbol("+"), IntegerConstant("1") >>)
        \o << Symbol("="), IntegerConstant("2"), Symbol(";") >> \o ReturnVoid,
      \* let i = a[a[j]];
      << Keyword("let"), Identifier("i"), Symbol("=") >>
        \o ArrayTerm("a", ArrayTerm("a", << Identifier("j") >>))
        \o << Symbol(";") >> \o ReturnVoid,
      \* do f(a[i], 3);
      << Keyword("do"), Identifier("f"), Symbol("(") >>
        \o ArrayTerm("a", << Identifier("i") >>)
        \o << Symbol(","), IntegerConstant("3"), Symbol(")"), Symbol(";") >>
        \o ReturnVoid,
      \* do a.g(); do Output.p("hi");
      << Keyword("do"), Identifier("a"), Symbol("."), Identifier("g"),
         Symbol("("), Symbol(")"), Symbol(";"),
         Keyword("do"), Identifier("Output"), Symbol("."), Identifier("p"),
         Symbol("("), StringConstant("hi"), Symbol(")"), Symbol(";") >>
        \o ReturnVoid,
      \* if (x) { let a[0] = 1; } else { let x = true; }
      << Keyword("if"), Symbol("("), Identifier("x"), Symbol(")"), Symbol("{"),
         Keyword("let") >> \o ArrayTerm("a", << IntegerConstant("0") >>)
        \o << Symbol("="), IntegerConstant("1"), Symbol(";"), Symbol("}"),
              Keyword("else"), Symbol("{"), Keyword("let"), Identifier("x"),
              Symbol("="), Keyword("true"), Symbol(";"), Symbol("}") >>
        \o ReturnVoid,
      \* while (i < j) { let i = i + (-1); } return this;
      << Keyword("while"), Symbol("("), Identifier("i"), Symbol("<"),
         Identifier("j"), Symbol(")"), Symbol("{"), Keyword("let"),
         Identifier("i"), Symbol("="), Identifier("i"), Symbol("+"),
         Symbol("("), Symbol("-"), IntegerConstant("1"), Symbol(")"),
         Symbol(";"), Symbol("}"),
         Keyword("return"), Keyword("this"), Symbol(";") >> }

\* <subtype> void|C <name>(<params>) { <n var names> <body> }
SubroutineTokens(subtype, name, nparams, n, body) ==
    << Keyword(subtype),
       IF subtype = "constructor" THEN Identifier("C") ELSE Keyword("void"),
       Identifier(name), Symbol("(") >>
    \o (IF nparams = 0 THEN <<>>
        ELSE << Keyword("int"), Identifier("p") >>)
    \o << Symbol(")"), Symbol("{") >>
    \o VarDecTokens(n) \o body \o << Symbol("}") >>

\* class C { <fields> <subroutine> [method void g(int p) { var Array a; return; }] }
ClassTokens(nfields, subtype, n, body, second) ==
    << Keyword("class"), Identifier("C"), Symbol("{") >>
    \o FieldDecs(nfields)
    \o SubroutineTokens(subtype, "f", 0, n, body)
    \o (IF second
        THEN SubroutineTokens("method", "g", 1, 1, ReturnVoid)
        ELSE <<>>)
    \o << Symbol("}") >>

JackSources ==
    { ClassTokens(nfields, subtype, n, body, second) :
        nfields \in 0..MaxFields, subtype \in SUBROUTINE_TYPES,
        n \in 0..MaxVars, body \in JackBodies, second \in BOOLEAN }

JackInit ==
    /\ jk_tokens \in JackSources
    /\ jk_pc = "class"
    /\ jk_pos = 0 /\ jk_out = <<>>
    /\ jk_class_name = ""
    /\ jk_class_symbols = SymbolTable
    /\ jk_subroutine_symbols = SymbolTable
    /\ jk_label_counter = 0
    /\ AsmIdle /\ VmIdle /\ CpuIdle /\ TokIdle

JackNext ==
    \/ JackClassOpen
    \/ JackClassVarDec
    \/ JackSubroutineDec
    \/ JackClassClose

SpecJack == JackInit /\ [][JackNext]_vars

(***************************************************************************)
(* Claims about the Jack compiler.  What a source declares is read off its *)
(* tokens, what the compiler emitted off the output lines.                 *)
(***************************************************************************)
IsSymbolToken(tokens, p, value) ==
    p \in 1..Len(tokens) /\ tokens[p] = Symbol(value)

\* Token p is a declared name: an identifier followed by `,` or `;`, inside a
\* declaration that the keyword `word` opens.
IsDeclaredName(tokens, p, word) ==
    /\ tokens[p].token_type = "identifier"
    /\ IsSymbolToken(tokens, p + 1, ",") \/ IsSymbolToken(tokens, p + 1, ";")
    /\ \E d \in 1..(p - 1) :
          /\ tokens[d] = Keyword(word)
          /\ \A q \in d..p : tokens[q] # Symbol(";")

\* The number of fields the class declares.
FieldCount(tokens) ==
    Cardinality({p \in 1..Len(tokens) : IsDeclaredName(tokens, p, "field")})

\* The positions where a subroutine declaration starts.
SubroutineStarts(tokens) ==
    {p \in 1..Len(tokens) :
        tokens[p].token_type = "keyword" /\ tokens[p].value \in SUBROUTINE_TYPES}

\* The end of the subroutine that starts at p: the next start, or the end.
SubroutineEnd(tokens, p) ==
    IF \E q \in SubroutineStarts(tokens) : q > p
    THEN (CHOOSE q \in SubroutineStarts(tokens) :
             q > p /\ \A r \in SubroutineStarts(tokens) : r > p => q <= r) - 1
    ELSE Len(tokens)

\* The number of local variables the subroutine at p declares.
LocalCount(tokens, p) ==
    Cardinality({q \in p..SubroutineEnd(tokens, p) :
                    IsDeclaredName(tokens, q, "var")})

\* The `function` line of the subroutine at p.
FunctionLine(tokens, p) ==
    Code("function " \o tokens[2].value \o "." \o tokens[p + 2].value \o " "
         \o ToString(LocalCount(tokens, p)))

IsCompiled(p) == \E q \in 1..Len(jk_out) : jk_out[q] = FunctionLine(jk_tokens, p)

FunctionLineAt(p) ==
    CHOOSE q \in 1..Len(jk_out) : jk_out[q] = FunctionLine(jk_tokens, p)

\* The output line at position q, if there is one.
LineIs(q, line) == q \in 1..Len(jk_out) /\ jk_out[q] = line

\* The receiver set-up of the subroutine at p is found from line r on.
ReceiverSetUpAt(p, r) ==
    /\ jk_tokens[p].value = "constructor" =>
          /\ LineIs(r, Code("push constant " \o ToString(FieldCount(jk_tokens))))
          /\ LineIs(r + 1, Code("call Memory.alloc 1"))
          /\ LineIs(r + 2, Code("pop pointer 0"))
    /\ jk_tokens[p].value = "method" =>
          /\ LineIs(r, Code("push argument 0"))
          /\ LineIs(r + 1, Code("pop pointer 0"))

\* C7 as stated: for every subroutine whose `function` line has been
\* written, the receiver set-up (allocation of the fields in a constructor,
\* argument 0 in a method) is what directly follows that line, whatever
\* the number of `var` declarations.
C7_ReceiverSetUpFirst ==
    \A p \in SubroutineStarts(jk_tokens) :
        IsCompiled(p) => ReceiverSetUpAt(p, FunctionLineAt(p) + 1)

\* C7 amended: for every subroutine whose `function` line has been written,
\* with n its number of local variables: when n > 0 the line is followed by
\* a comment line and the n pairs `push constant 0`, `pop local i`
\* (i = 0..n-1), and the receiver set-up follows these 1 + 2n lines; only
\* when n = 0 does the receiver set-up directly follow the `function` line.
C7_ReceiverSetUpAfterLocals ==
    \A p \in SubroutineStarts(jk_tokens) :
        IsCompiled(p) =>
            LET n == LocalCount(jk_tokens, p)
                q == FunctionLineAt(p)
            IN  /\ n > 0 =>
                     /\ LineIs(q + 1, Comment("Initialise " \o ToString(n)
                                              \o " local variables"))
                     /\ \A i \in 0..(n - 1) :
                          /\ LineIs(q + 2 + 2 * i, Code("push constant 0"))
                          /\ LineIs(q + 3 + 2 * i,
                                    Code("pop local " \o ToString(i)))
                /\ ReceiverSetUpAt(p, IF n = 0 THEN q + 1 ELSE q + 2 + 2 * n)

\* C7 witness: a constructor of a class with one field and two local
\* variables has been compiled: its allocation follows the zeroing of the
\* two locals.
C7_Witness ==
    /\ jk_pc = "done"
    /\ \E p \in SubroutineStarts(jk_tokens) :
          /\ jk_tokens[p].value = "constructor"
          /\ FieldCount(jk_tokens) = 1
          /\ LocalCount(jk_tokens, p) = 2
          /\ IsCompiled(p)
          /\ LineIs(FunctionLineAt(p) + 5, Code("pop local 1"))
          /\ LineIs(FunctionLineAt(p) + 6, Code("push constant 1"))
          /\ LineIs(FunctionLineAt(p) + 7, Code("call Memory.alloc 1"))
          /\ LineIs(FunctionLineAt(p) + 8, Code("pop pointer 0"))

\* The operations of the output: its lines without the comment lines, and
\* without the comments at the ends of lines.
IsOperation(line) == line.op # ""

Operations(lines) ==
    LET ops == SelectSeq(lines, IsOperation)
    IN  [k \in 1..Len(ops) |-> ops[k].op]

\* The push of the base of an array access: the line `push ...  // name[]`.
IsBasePush(line) ==
    /\ line.op # ""
    /\ \E p \in 1..Len(jk_tokens) :
          /\ jk_tokens[p].token_type = "identifier"
          /\ line.note = jk_tokens[p].value \o "[]"

BasePushes == {q \in 1..Len(jk_out) : IsBasePush(jk_out[q])}

\* The tokens consumed so far that are the symbol `value`.
Consumed(value) == {p \in 1..jk_pos : jk_tokens[p] = Symbol(value)}

\* The source is `class C { <fields> <subtype> f() { var Array a; var int
\* i, j, ...; let a[i] = a[j]; return; } ... }`: a, i, j are local 0, 1, 2
\* and the statement is the first of the body.
IsArrayExample ==
    \E p \in SubroutineStarts(jk_tokens) :
        /\ \A q \in SubroutineStarts(jk_tokens) : p <= q
        /\ LocalCount(jk_tokens, p) >= 3
        /\ \E b \in p..(Len(jk_tokens) - Len(LetArrayToArray) + 1) :
              /\ jk_tokens[b - 2] \in {Identifier(VarNames[k]) : k \in 3..MaxVars}
              /\ jk_tokens[b - 1] = Symbol(";")
              /\ SubSeq(jk_tokens, b, b + Len(LetArrayToArray) - 1)
                   = LetArrayToArray

\* The operations emitted for the statement of the example: those after the
\* `function` line, the zeroing of the locals and the receiver set-up of the
\* first subroutine.
ExampleOperations ==
    LET p == CHOOSE q \in SubroutineStarts(jk_tokens) :
                 \A r \in SubroutineStarts(jk_tokens) : q <= r
        first == 2 + 2 * LocalCount(jk_tokens, p)
                 + (IF jk_tokens[p].value = "constructor" THEN 3
                    ELSE IF jk_tokens[p].value = "method" THEN 2 ELSE 0)
    IN  SubSeq(Operations(jk_out), first, first + 11)

\* C8 as stated: the push of the base comes first, then the code of the index
\* expression, then `add`: at every moment there are as many base pushes in
\* the output as `[` consumed, and `let a[i] = a[j];` with a, i, j at
\* local 0, 1, 2 compiles to push local 0, push local 1, add, push local 0,
\* push local 2, add, pop pointer 1, push that 0, pop temp 0, pop pointer 1,
\* push temp 0, pop that 0.
C8_BaseBeforeIndex ==
    /\ Cardinality(BasePushes) = Cardinality(Consumed("["))
    /\ (jk_pc = "done" /\ IsArrayExample) =>
          ExampleOperations =
              << "push local 0", "push local 1", "add",
                 "push local 0", "push local 2", "add",
                 "pop pointer 1", "push that 0",
                 "pop temp 0", "pop pointer 1", "push temp 0", "pop that 0" >>

\* C8 amended: the code of the index expression comes first, then the push
\* of the base, then `add`: at every moment (also when compilation has
\* failed) there are as many base pushes in the output as `]` consumed, each
\* base push is directly followed by `add`, and `let a[i] = a[j];` with a, i,
\* j at local 0, 1, 2 compiles to push local 1, push local 0, add,
\* push local 2, push local 0, add, pop pointer 1, push that 0, pop temp 0,
\* pop pointer 1, push temp 0, pop that 0.
C8_IndexBeforeBase ==
    /\ Cardinality(BasePushes) = Cardinality(Consumed("]"))
    /\ \A q \in BasePushes : LineIs(q + 1, Code("add"))
    /\ (jk_pc = "done" /\ IsArrayExample) =>
          ExampleOperations =
              << "push local 1", "push local 0", "add",
                 "push local 2", "push local 0", "add",
                 "pop pointer 1", "push that 0",
                 "pop temp 0", "pop pointer 1", "push temp 0", "pop that 0" >>

\* C8 witness: the example has been compiled by a function with exactly the
\* three locals: after the `function` line and the seven lines that zero
\* the locals come the index i, the base a and the add.
C8_Witness ==
    /\ jk_pc = "done"
    /\ IsArrayExample
    /\ jk_out[1] = Code("function C.f 3")
    /\ jk_out[9] = Noted("push local 1", "i")
    /\ jk_out[10] = Noted("push local 0", "a[]")
    /\ jk_out[11] = Code("add")
    /\ jk_out[12] = Noted("push local 2", "j")
    /\ jk_out[13] = Noted("push local 0", "a[]")
    /\ jk_out[14] = Code("add")
    /\ jk_out[15] = Code("pop pointer 1")

(***************************************************************************)
(* The Jack tokeniser (projects/11/tokeniser.py).  The buffer is a         *)
(* sequence of characters; positions in it are counted from 0 as in the    *)
(* code.                                                                   *)
(***************************************************************************)
JACK_SYMBOLS == { "{", "}", "(", ")", "[", "]", ".", ",", ";", "+", "-", "*", "/", "&", "|", "<", ">", "=", "~" }

KEYWORDS ==
    { <<"c","l","a","s","s">>,
      <<"c","o","n","s","t","r","u","c","t","o","r">>,
      <<"f","u","n","c","t","i","o","n">>,
      <<"m","e","t","h","o","d">>,
      <<"f","i","e","l","d">>,
      <<"s","t","a","t","i","c">>,
      <<"v","a","r">>,
      <<"i","n","t">>,
      <<"c","h","a","r">>,
      <<"b","o","o","l","e","a","n">>,
      <<"v","o","i","d">>,
      <<"t","r","u","e">>,
      <<"f","a","l","s","e">>,
      <<"n","u","l","l">>,
      <<"t","h","i","s">>,
      <<"l","e","t">>,
      <<"d","o">>,
      <<"i","f">>,
      <<"e","l","s","e">>,
      <<"w","h","i","l","e">>,
      <<"r","e","t","u","r","n">> }

Letters ==
    { "a", "b", "c", "d", "e", "f", "g", "h", "i", "j", "k", "l", "m", "n", "o", "p", "q", "r", "s", "t", "u", "v", "w", "x", "y", "z",
      "A", "B", "C", "D", "E", "F", "G", "H", "I", "J", "K", "L", "M", "N", "O", "P", "Q", "R", "S", "T", "U", "V", "W", "X", "Y", "Z" }

isspace(ch) == ch \in {" ", "\n", "\t", "\r"}

isalpha(ch) == ch \in Letters

isalnum(ch) == isalpha(ch) \/ IsDigitChar(ch)

\* i is a valid index of buf: buf[i] does not raise IndexError.
InBuf(buf, i) == i >= 0 /\ i < Len(buf)

\* buf[i]
At(buf, i) == buf[i + 1]

\* buf[i: j], which never raises
Slice(buf, i, j) == SubSeq(buf, i + 1, IF j < Len(buf) THEN j ELSE Len(buf))

\* while self.buf[i].isspace(): ... (tokeniser.py 69-74)
RECURSIVE skip_space(_, _)
skip_space(buf, s) ==
    IF ~InBuf(buf, s.i) THEN [s EXCEPT !.raised = TRUE]
    ELSE IF ~isspace(At(buf, s.i)) THEN s
    ELSE skip_space(buf,
            [s EXCEPT !.i = @ + 1,
                      !.line = IF At(buf, s.i) = "\n" THEN @ + 1 ELSE @,
                      !.position = (IF At(buf, s.i) = "\n" THEN 0 ELSE @) + 1])

\* while self.buf[i] != '\n': i += 1 (tokeniser.py 79-80)
RECURSIVE skip_line(_, _)
skip_line(buf, s) ==
    IF ~InBuf(buf, s.i) THEN [s EXCEPT !.raised = TRUE]
    ELSE IF At(buf, s.i) = "\n" THEN s
    ELSE skip_line(buf, [s EXCEPT !.i = @ + 1])

\* while self.buf[i: i+2] != '*/': ... (tokeniser.py 87-92)
RECURSIVE skip_comment(_, _)
skip_comment(buf, s) ==
    IF Slice(buf, s.i, s.i + 2) = << "*", "/" >> THEN s
    ELSE IF ~InBuf(buf, s.i) THEN [s EXCEPT !.raised = TRUE]
    ELSE skip_comment(buf,
            [s EXCEPT !.i = @ + 1,
                      !.line = IF At(buf, s.i) = "\n" THEN @ + 1 ELSE @,
                      !.position = (IF At(buf, s.i) = "\n" THEN 0 ELSE @) + 1])

\* The loop of has_next (tokeniser.py 68-96), entered with ch = buf[i] read.
RECURSIVE skip_ignored(_, _)
skip_ignored(buf, s) ==
    IF ~(\/ isspace(At(buf, s.i))
         \/ Slice(buf, s.i, s.i + 2) \in { << "/", "/" >>, << "/", "*" >> })
    THEN s
    ELSE
      LET s1 == skip_space(buf, s)
          ch2 == Slice(buf, s1.i, s1.i + 2)
          s2 == IF s1.raised THEN s1
                ELSE IF ch2 = << "/", "/" >> THEN
                    LET t == skip_line(buf, s1)
                    IN  IF t.raised THEN t
                        ELSE [t EXCEPT !.line = @ + 1, !.position = 1]
                ELSE IF ch2 = << "/", "*" >> THEN
                    LET t == skip_comment(buf, s1)
                    IN  IF t.raised THEN t
                        ELSE [t EXCEPT !.i = @ + 2, !.position = @ + 2]
                ELSE s1
      IN  IF s2.raised THEN s2
          ELSE IF ~InBuf(buf, s2.i) THEN [s2 EXCEPT !.raised = TRUE]
          ELSE skip_ignored(buf, s2)

\* has_next: its result ("True", "False", or "IndexError" when the exception
\* leaves the method) and the attributes it leaves behind.
has_next(buf, index, line, position) ==
    IF ~InBuf(buf, index)
    THEN [result |-> "IndexError", index |-> index, line |-> line,
          position |-> position]
    ELSE LET s == skip_ignored(buf, [i |-> index, line |-> line,
                                     position |-> position, raised |-> FALSE])
         IN  IF s.raised
             THEN [result |-> "False", index |-> index, line |-> s.line,
                   position |-> s.position]
             ELSE [result |-> IF s.i < Len(buf) - 1 THEN "True" ELSE "False",
                   index |-> s.i, line |-> s.line, position |-> s.position]

\* set_token
JackToken(token_type, value, line, position) ==
    [token_type |-> token_type, value |-> value, line |-> line,
     position |-> position]

\* while <Test(self.buf[i])>: i += 1, from i on: the index where the loop
\* stops, or -1 when it runs off the end of the buffer (IndexError).
ScanEnd(buf, i, Test(_)) ==
    LET stops == {j \in i..(Len(buf) - 1) : ~Test(At(buf, j))}
    IN  IF stops = {} THEN -1
        ELSE CHOOSE j \in stops : \A k \in stops : j <= k

IsWordChar(ch) == isalnum(ch) \/ ch = "_"

IsNotQuote(ch) == ch # "\""

\* advance: the exception it raises ("" for none), and the token and the
\* attributes it leaves behind.
advance(buf, index, line, position) ==
    LET ch == At(buf, index)
        failed(e) == [raised |-> e, index |-> index, position |-> position,
                      token |-> JackToken("", <<>>, line, position)]
        done(token_type, value, i, next) ==
            [raised |-> "", index |-> next,
             position |-> position + (i - index),
             token |-> JackToken(token_type, value, line, position)]
    IN  IF ~InBuf(buf, index) THEN failed("IndexError")
        ELSE IF ch \in JACK_SYMBOLS THEN
            done("symbol", << ch >>, index + 1, index + 1)
        ELSE IF IsDigitChar(ch) THEN
            LET i == ScanEnd(buf, index + 1, IsDigitChar)
            IN  IF i = -1 THEN failed("IndexError")
                ELSE done("integerConstant",
                          FormatInt(ParseInt(Slice(buf, index, i))), i, i)
        ELSE IF ch = "\"" THEN
            LET i == ScanEnd(buf, index + 1, IsNotQuote)
            IN  IF i = -1 THEN failed("IndexError")
                ELSE done("stringConstant", Slice(buf, index + 1, i), i, i + 1)
        ELSE IF isalpha(ch) \/ ch = "_" THEN
            LET i == ScanEnd(buf, index + 1, IsWordChar)
                value == Slice(buf, index, i)
            IN  IF i = -1 THEN failed("IndexError")
                ELSE done(IF value \in KEYWORDS THEN "keyword" ELSE "identifier",
                          value, i, i)
        ELSE failed("ValueError")

\* generate: while self.has_next()
TokHasNext ==
    /\ tk_pc = "has_next"
    /\ LET r == has_next(tk_buf, tk_index, tk_line, tk_position)
       IN  /\ tk_pc' = IF r.result = "IndexError" THEN "raised"
                       ELSE IF r.result = "True" THEN "advance" ELSE "done"
           /\ tk_index' = r.index
           /\ tk_line' = r.line
           /\ tk_position' = r.position
    /\ UNCHANGED <<tk_items, tk_buf, tk_tokens>>
    /\ UNCHANGED <<asmVars, vmVars, cpuVars, jackVars>>

\* generate: self.advance(); yield self.token
TokAdvance ==
    /\ tk_pc = "advance"
    /\ LET r == advance(tk_buf, tk_index, tk_line, tk_position)
       IN  /\ tk_pc' = IF r.raised = "" THEN "has_next" ELSE "raised"
           /\ tk_index' = r.index
           /\ tk_position' = r.position
           /\ tk_tokens' = IF r.raised = "" THEN Append(tk_tokens, r.token)
                           ELSE tk_tokens
    /\ UNCHANGED <<tk_items, tk_buf, tk_line>>
    /\ UNCHANGED <<asmVars, vmVars, cpuVars, jackVars>>

(***************************************************************************)
(* Jack buffers: sequences of lexemes, whitespace and terminated comments. *)
(***************************************************************************)
\* A piece of a buffer: its text and, for a lexeme, the token it denotes
\* (token_type "" for whitespace and comments).
TokItem(token_type, value, text) ==
    [token_type |-> token_type, value |-> value, text |-> text]

Lexemes ==
    { TokItem("identifier", << "x" >>, << "x" >>),
      TokItem("keyword", << "d", "o" >>, << "d", "o" >>),
      TokItem("integerConstant", << "1", "2" >>, << "1", "2" >>),
      TokItem("symbol", << ";" >>, << ";" >>),
      TokItem("stringConstant", << "s" >>, << "\"", "s", "\"" >>) }

Separators ==
    { TokItem("", <<>>, << " " >>),
      TokItem("", <<>>, << "\n" >>),
      TokItem("", <<>>, << "/", "/", "c", "\n" >>),
      TokItem("", <<>>, << "/", "*", "c", "*", "/" >>) }

\* Lexemes that would run together when written side by side.
IsWord(item) == item.token_type \in {"identifier", "keyword", "integerConstant"}

RECURSIVE Concat(_)
Concat(items) ==
    IF items = <<>> THEN <<>> ELSE Head(items).text \o Concat(Tail(items))

\* The item sequences of at most MaxItems pieces in which no two words are
\* adjacent.
TokInputs ==
    {items \in SeqsUpTo(Lexemes \cup Separators, MaxItems) :
        \A k \in 1..(Len(items) - 1) : ~(IsWord(items[k]) /\ IsWord(items[k + 1]))}

TokInit ==
    /\ tk_items \in TokInputs
    /\ tk_buf = Concat(tk_items)
    /\ tk_pc = "has_next"
    /\ tk_index = 0 /\ tk_line = 0 /\ tk_position = 0
    /\ tk_tokens = <<>>
    /\ AsmIdle /\ VmIdle /\ CpuIdle /\ JackIdle

TokNext ==
    \/ TokHasNext
    \/ TokAdvance

SpecTok == TokInit /\ [][TokNext]_vars

(***************************************************************************)
(* Claims about the Jack tokeniser.                                        *)
(***************************************************************************)
IsLexeme(item) == item.token_type # ""

\* The tokens the buffer's lexemes denote, in source order.
ExpectedTokens ==
    LET lexemes == SelectSeq(tk_items, IsLexeme)
    IN  [k \in 1..Len(lexemes) |->
            [token_type |-> lexemes[k].token_type, value |-> lexemes[k].value]]

\* The tokens generate() has yielded, by type and value.
YieldedTokens ==
    [k \in 1..Len(tk_tokens) |->
        [token_type |-> tk_tokens[k].token_type, value |-> tk_tokens[k].value]]

\* C9: generate() yields the tokens of the buffer's lexemes in source order
\* (what it has yielded is always a prefix of them), and when it stops it has
\* stopped without raising an error and has yielded one token per lexeme,
\* whatever the last character of the buffer is.
C9_OneTokenPerLexeme ==
    /\ Len(YieldedTokens) <= Len(ExpectedTokens)
    /\ YieldedTokens = SubSeq(ExpectedTokens, 1, Len(YieldedTokens))
    /\ tk_pc \in {"done", "raised"} =>
          /\ tk_pc = "done"
          /\ YieldedTokens = ExpectedTokens

(***************************************************************************)
(* What the source text says, read off the source alone (used to state the *)
(* assembler's claims independently of the two passes).                    *)
(***************************************************************************)
IsMarkerLine(raw) == CleanLine(raw) # <<>> /\ CleanLine(raw)[1] = "("

IsInstructionLine(raw) == CleanLine(raw) # <<>> /\ CleanLine(raw)[1] # "("

MarkerName(raw) == SubSeq(CleanLine(raw), 2, Len(CleanLine(raw)) - 1)

\* The instruction address of line p: the number of instruction lines before it.
AddressOfLine(src, p) ==
    Cardinality({q \in 1..(p - 1) : IsInstructionLine(src[q])})

\* Line p is an A-instruction naming a symbol (not a decimal literal).
IsSymbolReference(src, p) ==
    /\ IsInstructionLine(src[p])
    /\ CleanLine(src[p])[1] = "@"
    /\ ~IsDigit(Tail(CleanLine(src[p])))

ReferencedSymbol(src, p) == Tail(CleanLine(src[p]))

MarkerNames(src) == {MarkerName(src[p]) : p \in {q \in 1..Len(src) : IsMarkerLine(src[q])}}

\* The word emitted for the instruction of line p.
WordOfLine(src, p) == asm_result[AddressOfLine(src, p) + 1]

\* Lines that reference a variable: a symbol neither predefined nor a label.
VariableReferences(src) ==
    {p \in 1..Len(src) :
        /\ IsSymbolReference(src, p)
        /\ ReferencedSymbol(src, p) \notin DOMAIN SpecPredefined
        /\ ReferencedSymbol(src, p) \notin MarkerNames(src)}

FirstReference(src, p) ==
    \A q \in VariableReferences(src) :
        ReferencedSymbol(src, q) = ReferencedSymbol(src, p) => p <= q

\* The number of distinct variables first referenced before line p.
VariablesBefore(src, p) ==
    Cardinality({q \in VariableReferences(src) : FirstReference(src, q) /\ q < p})

(***************************************************************************)
(* Claims about the assembler.                                             *)
(***************************************************************************)

\* C1: when assembly has finished, every `@NAME` whose NAME is defined by a
\* label line `(NAME)` (before or after the reference) has been assembled to
\* the instruction address of the first instruction after that label line,
\* label lines consuming no address; in the seed program the word of `@LOOP`
\* (the sixth word) is 1.
C1_LabelReferenceResolves ==
    asm_pc = "done" =>
        /\ \A p, q \in 1..Len(asm_source) :
               ( /\ IsMarkerLine(asm_source[p])
                 /\ \A r \in 1..Len(asm_source) :
                        (IsMarkerLine(asm_source[r])
                         /\ MarkerName(asm_source[r]) = MarkerName(asm_source[p]))
                        => r = p
                 /\ IsSymbolReference(asm_source, q)
                 /\ ReferencedSymbol(asm_source, q) = MarkerName(asm_source[p]) )
               => WordOfLine(asm_source, q) = AddressOfLine(asm_source, p)
        /\ asm_source = SeedProgram => asm_result[6] = 1

\* C2: when assembly has finished, every `@P` with P one of R0..R15, SCREEN,
\* KBD, SP, LCL, ARG, THIS, THAT has been assembled to P's fixed address, and
\* no variable register was spent on it: the next free register is 16 plus
\* the number of distinct variables the program references.
C2_PredefinedSymbolsResolve ==
    asm_pc = "done" =>
        /\ \A q \in 1..Len(asm_source) :
               ( /\ IsSymbolReference(asm_source, q)
                 /\ ReferencedSymbol(asm_source, q) \in DOMAIN SpecPredefined
                 /\ ReferencedSymbol(asm_source, q) \notin MarkerNames(asm_source) )
               => WordOfLine(asm_source, q)
                    = SpecPredefined[ReferencedSymbol(asm_source, q)]
        /\ asm_register =
             16 + Cardinality({ReferencedSymbol(asm_source, q) :
                                  q \in VariableReferences(asm_source)})

\* C10: when assembly has finished, the variables (symbols neither predefined
\* nor defined by a label line) have the addresses 16, 17, 18, ... in order
\* of first reference, and every reference to a variable yields the address
\* of its first reference.
C10_VariablesAllocatedFrom16 ==
    asm_pc = "done" =>
        \A p, q \in VariableReferences(asm_source) :
            ( /\ FirstReference(asm_source, p)
              /\ ReferencedSymbol(asm_source, q) = ReferencedSymbol(asm_source, p) )
            => WordOfLine(asm_source, q) = 16 + VariablesBefore(asm_source, p)

(***************************************************************************)
(* Claims about the assembler's encoding.                                  *)
(***************************************************************************)
StartsWith(text, prefix) ==
    Len(prefix) <= Len(text) /\ SubSeq(text, 1, Len(prefix)) = prefix

\* dest as the sum of A = 32, D = 16, M = 8 over the letters it contains.
DestBits(dest) ==
    (IF "A" \in Range(dest) THEN 32 ELSE 0)
    + (IF "D" \in Range(dest) THEN 16 ELSE 0)
    + (IF "M" \in Range(dest) THEN 8 ELSE 0)

JumpBits(jump) == IF jump = <<>> THEN 0 ELSE JUMPS[jump]

ABit(variant) == IF variant THEN 4096 ELSE 0

\* 0xE000 | a | (comp << 6) | dest | jmp, the fields being disjoint.
CWord(dest, comp, variant, jump) ==
    57344 + ABit(variant) + 64 * COMPS[comp] + DestBits(dest) + JumpBits(jump)

\* The one word assembled from the one line `text` is that of dest=comp;jmp.
EncodedAs(text, dest, comp, variant, jump) ==
    text = CText(dest, CComp(comp, variant), jump) =>
        /\ asm_result = << CWord(dest, comp, variant, jump) >>
        /\ 64 * COMPS[comp] < 4096 /\ (64 * COMPS[comp]) % 64 = 0
        /\ DestBits(dest) < 64 /\ DestBits(dest) % 8 = 0
        /\ JumpBits(jump) < 8
        /\ asm_result[1] < 65536
        /\ asm_result[1] \div 8192 = 7

IsAInstructionLine(src, p) ==
    IsInstructionLine(src[p]) /\ CleanLine(src[p])[1] = "@"

\* The last label line that defines name.
LabelLineOf(src, name) ==
    CHOOSE p \in 1..Len(src) :
        /\ IsMarkerLine(src[p]) /\ MarkerName(src[p]) = name
        /\ \A r \in 1..Len(src) :
               (IsMarkerLine(src[r]) /\ MarkerName(src[r]) = name) => r <= p

\* The line of the first reference to the variable that line q references.
FirstReferenceOf(src, q) ==
    CHOOSE p \in VariableReferences(src) :
        FirstReference(src, p) /\ ReferencedSymbol(src, p) = ReferencedSymbol(src, q)

\* The address of x in `@x` on line q: the literal, the address of the
\* predefined symbol or of the label, or the register of the variable.
ResolvedAddress(src, q) ==
    LET x == Tail(CleanLine(src[q]))
    IN  IF IsDigit(x) THEN ParseInt(x)
        ELSE IF x \in MarkerNames(src) THEN AddressOfLine(src, LabelLineOf(src, x))
        ELSE IF x \in DOMAIN SpecPredefined THEN SpecPredefined[x]
        ELSE 16 + VariablesBefore(src, FirstReferenceOf(src, q))

\* C12: when assembly has finished, the word of every A-instruction `@x` (x a
\* decimal literal of any size or a symbol) has bit 15 equal to 0 and its low
\* 15 bits are those of the resolved address of x.
C12_AInstructionEncoding ==
    asm_pc = "done" =>
        \A q \in 1..Len(asm_source) :
            IsAInstructionLine(asm_source, q) =>
                /\ WordOfLine(asm_source, q) < 32768
                /\ WordOfLine(asm_source, q)
                     = ResolvedAddress(asm_source, q) % 32768

\* The instruction lines of the source, cleaned, in source order.
InstructionLines(src) ==
    SelectSeq([p \in 1..Len(src) |-> CleanLine(src[p])],
              LAMBDA line : line # <<>> /\ line[1] # "(")

\* word is the encoding of the instruction `line`; of a symbol only that the
\* word is that of an A-instruction is required here.
IsEncodingOf(word, line) ==
    IF line[1] = "@" THEN
        IF IsDigit(Tail(line)) THEN word = ParseInt(Tail(line)) % 32768
        ELSE word < 32768
    ELSE /\ translate_c_instruction(line).ok
         /\ word = translate_c_instruction(line).code

BadInstructions ==
    { <<"D","=","Q">>, <<"0",";","J","X","X">>, <<"X","=","1">> }

HasBadInstruction(src) ==
    \E p \in 1..Len(src) : CleanLine(src[p]) \in BadInstructions

\* C14: a source with a C-instruction whose comp, jump or dest is unknown is
\* never assembled to a word list: assemble() does not reach its return, and
\* once the error is raised no word is left, the valid instructions before
\* the bad line included.
C14_EncodingErrorsFatal ==
    HasBadInstruction(asm_source) =>
        /\ asm_pc # "done"
        /\ ~(asm_pc = "pass2" /\ asm_i > Len(asm_instructions))
        /\ asm_pc = "error" => asm_result = <<>>

\* D=M and @i were encoded, then D=Q raised.
C14_Witness ==
    /\ asm_pc = "error"
    /\ asm_source = << <<"D","=","M">>, <<"@","i">>, <<"D","=","Q">> >>
    /\ asm_result = <<>>

(***************************************************************************)
(* Running translated code: single commands on a prepared stack.           *)
(*                                                                         *)
(* One file is translated without the bootstrap, the output is loaded and  *)
(* run to its end on a machine whose RAM holds the pointers and the stack  *)
(* the scenario prepares.                                                  *)
(***************************************************************************)
Scenario(program, ram) == [program |-> program, ram |-> ram]

Push(segment, offset) == VmLine("push", << segment, FormatInt(offset) >>)

Pop(segment, offset) == VmLine("pop", << segment, FormatInt(offset) >>)

\* The five pointers a scenario starts with.
Pointers(c) == (0 :> c.s) @@ (1 :> c.l) @@ (2 :> c.a) @@ (3 :> c.t) @@ (4 :> c.u)

\* Usual segment bases; bases on the stack itself; bases at the translator's
\* variables; bases at the pointers.
PushPopPointers ==
    { [s |-> 256, l |-> 300, a |-> 400, t |-> 3000, u |-> 3010],
      [s |-> 256, l |-> 256, a |-> 255, t |-> 257, u |-> 256],
      [s |-> 300, l |-> 16,  a |-> 15,  t |-> 16,  u |-> 17],
      [s |-> 256, l |-> 0,   a |-> 1,   t |-> 0,   u |-> 65535] }

PoppedSegments == {"local", "argument", "this", "that", "temp", "pointer", "static"}

ValidOffsets(segment) ==
    CASE segment = "temp"    -> {0, 7}
      [] segment = "pointer" -> {0, 1}
      [] segment = "static"  -> {0, 5}
      [] OTHER               -> {0, 1, 2}

PushedConstants == {0, 7, 32767}

\* Every cell a pop may write holds a stale value at the start.
StaleCells == [a \in {5, 12, 16, 17, 18, 255, 256, 257, 258, 300, 301, 302} |-> 99]

PushPopScenarios ==
    UNION { { Scenario(<< Push("constant", k), Pop(seg, i) >>, Pointers(c) @@ StaleCells) :
                i \in ValidOffsets(seg) } :
            seg \in PoppedSegments, k \in PushedConstants, c \in PushPopPointers }

\* 16-bit values around zero and around the sign change.
StackValues == {0, 1, 7, 8, 32767, 32768, 65535}

\* A stack of two values x (below) and y (top) from address 256.
TwoOnStack(x, y) == (0 :> 258) @@ (1 :> 300) @@ (256 :> x) @@ (257 :> y) @@ (258 :> 99)

ArithmeticScenarios ==
    { Scenario(<< VmLine(op, <<>>) >>, TwoOnStack(x, y)) :
        op \in DOMAIN STATIC_OPS, x \in StackValues, y \in StackValues }
    \cup { Scenario(<< Push("constant", 7), Push("constant", 8), VmLine("add", <<>>) >>,
                    (0 :> 256)) }

ComparisonScenarios ==
    { Scenario(<< VmLine(op, <<>>) >>, TwoOnStack(x, y)) :
        op \in DOMAIN COMPARISON_OPS, x \in StackValues, y \in StackValues }

\* A function entered at the head of the file, with LCL at SP or elsewhere,
\* and a function entered through a call.
FunctionPointers ==
    { [s |-> 256, l |-> 256, a |-> 250, t |-> 3000, u |-> 3010],
      [s |-> 317, l |-> 317, a |-> 310, t |-> 3000, u |-> 3010],
      [s |-> 256, l |-> 300, a |-> 250, t |-> 3000, u |-> 3010] }

FunctionCommand(n) == VmLine("function", << NameF, FormatInt(n) >>)

\* Stale values where the locals will be.
StaleStack(c) == [a \in c.s..(c.s + 8) |-> 99]

FunctionScenarios ==
    { Scenario(<< FunctionCommand(n) >>, Pointers(c) @@ StaleStack(c)) :
        n \in 0..MaxLocals, c \in FunctionPointers }
    \cup { Scenario(<< VmLine("call", << NameF, <<"0">> >>), FunctionCommand(n) >>,
                    Pointers(c) @@ StaleStack(c)) :
             n \in 0..MaxLocals, c \in FunctionPointers }

OpsScenarios ==
    PushPopScenarios \cup ArithmeticScenarios \cup ComparisonScenarios
        \cup FunctionScenarios

OpsInit ==
    /\ \E sc \in OpsScenarios :
          /\ vm_infiles = << VmFile(<<"M">>, sc.program) >>
          /\ cpu_ram = sc.ram
          /\ cpu_start = sc.ram
    /\ vm_args = [isdir |-> FALSE, no_bootstrap |-> TRUE]
    /\ vm_pc = "start"
    /\ vm_file = 1 /\ vm_result = <<>> /\ vm_outfile = <<>>
    /\ tr_module = <<>> /\ tr_pos = 1 /\ tr_linenum = 1
    /\ tr_function = <<>> /\ tr_calls = 0 /\ tr_result = <<>>
    /\ cpu_pc = "ready" /\ cpu_rom = <<>>
    /\ cpu_A = 0 /\ cpu_D = 0 /\ cpu_PC = 0
    /\ AsmIdle /\ JackIdle /\ TokIdle

SpecOps == OpsInit /\ [][VMNext]_vars

\* The emitted code has been executed to its last instruction.
Executed == cpu_pc = "running" /\ cpu_PC = Len(cpu_rom)

\* The address a symbol of the emitted code stands for.
AddressOf(x) ==
    LET labels == LabelNames(vm_outfile)
    IN  ResolveSymbol(vm_outfile, labels, VariableSeq(vm_outfile, labels), x)

Uses(x) == \E j \in 1..Len(vm_outfile) : vm_outfile[j] = AInstr(x)

\* The cell seg[i] names, with the base pointers of the start.
SegmentCell(seg, i) ==
    CASE seg = "local"    -> (Read(cpu_start, 1) + i) % Word
      [] seg = "argument" -> (Read(cpu_start, 2) + i) % Word
      [] seg = "this"     -> (Read(cpu_start, 3) + i) % Word
      [] seg = "that"     -> (Read(cpu_start, 4) + i) % Word
      [] seg = "temp"     -> 5 + i
      [] seg = "pointer"  -> 3 + i
      [] seg = "static"   -> AddressOf(<<"M", ".">> \o FormatInt(i))

ScratchCells == IF Uses(SymAddr) THEN { AddressOf(SymAddr) } ELSE {}

IsPushPop ==
    /\ Len(Program) = 2
    /\ Program[1] = Push("constant", ParseInt(Program[1].args[2]))
    /\ Program[2].command = "pop"

PushedConstant == ParseInt(Program[1].args[2])

PoppedCell == SegmentCell(Program[2].args[1], ParseInt(Program[2].args[2]))

\* C15: once the code of `push constant k; pop seg i` has been executed, the
\* cell seg[i] names holds k and SP has its value from before the push,
\* unless that cell is SP or the translator's variable `addr`.
C15_PushPopRoundTrip ==
    (IsPushPop /\ Executed /\ PoppedCell \notin ({0} \cup ScratchCells)) =>
        /\ Read(cpu_ram, PoppedCell) = PushedConstant
        /\ RamSP = Read(cpu_start, 0)

\* C15 witness: `push constant 7; pop local 2` with LCL = 300 and SP = 256
\* has been executed: RAM[302] = 7 where 99 was, and SP = 256.
C15_Witness ==
    /\ Executed
    /\ Program = << Push("constant", 7), Pop("local", 2) >>
    /\ Read(cpu_start, 1) = 300 /\ Read(cpu_start, 302) = 99
    /\ Read(cpu_ram, 302) = 7
    /\ RamSP = 256

StartSP == Read(cpu_start, 0)

\* The two values on top of the stack at the start: x below y.
StartX == Read(cpu_start, StartSP - 2)

StartY == Read(cpu_start, StartSP - 1)

UnaryOps == {"neg", "not"}

\* What the VM command computes on 16-bit words.
ArithmeticValue(op, x, y) ==
    CASE op = "add" -> (x + y) % Word
      [] op = "sub" -> (x + Word - y) % Word
      [] op = "and" -> BitAnd(x, y)
      [] op = "or"  -> BitOr(x, y)
      [] op = "neg" -> (Word - y) % Word
      [] op = "not" -> Word - 1 - y

ResultSlot(op) == IF op \in UnaryOps THEN StartSP - 1 ELSE StartSP - 2

\* Every cell but those of `cells` holds what it held at the start.
OnlyChanged(cells) ==
    \A a \in (DOMAIN cpu_ram \cup DOMAIN cpu_start) \ cells :
        Read(cpu_ram, a) = Read(cpu_start, a)

IsSingleCommand(ops) == Len(Program) = 1 /\ Program[1].command \in ops

SumExample == << Push("constant", 7), Push("constant", 8), VmLine("add", <<>>) >>

\* C16: once the code of add, sub, and, or has been executed the slot of x
\* holds x+y, x-y, x&y, x|y (mod 2^16) and SP is one less; after neg and not
\* the slot of y holds -y, !y and SP is as before; no other cell has changed.
\* `push constant 7; push constant 8; add` from SP = 256 ends with
\* RAM[256] = 15 and SP = 257.
C16_StackArithmetic ==
    /\ (IsSingleCommand(DOMAIN STATIC_OPS) /\ Executed) =>
          LET op == Program[1].command
          IN  /\ Read(cpu_ram, ResultSlot(op)) = ArithmeticValue(op, StartX, StartY)
              /\ RamSP = IF op \in UnaryOps THEN StartSP ELSE StartSP - 1
              /\ OnlyChanged({0, ResultSlot(op)})
    /\ (Program = SumExample /\ StartSP = 256 /\ Executed) =>
          /\ Read(cpu_ram, 256) = 15
          /\ RamSP = 257

\* C16 witness: `sub` on x = 7, y = 8 has been executed: the slot of x holds
\* 7 - 8 = 0xFFFF and SP went from 258 to 257.
C16_Witness ==
    /\ Executed
    /\ IsSingleCommand({"sub"})
    /\ StartX = 7 /\ StartY = 8 /\ StartSP = 258
    /\ Read(cpu_ram, 256) = 65535
    /\ RamSP = 257

\* C17: once the code of eq, lt or gt has been executed on any two 16-bit
\* values, SP is one less than before and the word on top of the stack, in
\* the slot of the lower operand, is 0x0000 or 0xFFFF.
C17_ComparisonResultDomain ==
    (IsSingleCommand(DOMAIN COMPARISON_OPS) /\ Executed) =>
        /\ RamSP = StartSP - 1
        /\ Read(cpu_ram, StartSP - 2) \in {0, 65535}
        /\ OnlyChanged({0, StartSP - 2})

\* C17 witness: `lt` on x = 7, y = 8 has been executed and left 0xFFFF.
C17_Witness ==
    /\ Executed
    /\ IsSingleCommand({"lt"})
    /\ StartX = 7 /\ StartY = 8 /\ StartSP = 258
    /\ Read(cpu_ram, 256) = 65535
    /\ RamSP = 257

IsFunctionProgram == Program[Len(Program)].command = "function"

EnteredByCall == Len(Program) = 2

FunctionNlocals == ParseInt(Program[Len(Program)].args[2])

\* SP when the function's code is entered: a call has pushed its frame.
EntrySP == IF EnteredByCall THEN StartSP + 5 ELSE StartSP

\* C18: once the code of `function F n` has been executed, the n cells
\* from the entry value of SP are 0 and SP is its entry value plus n; with
\* n = 0 nothing has changed.
C18_FunctionPrologue ==
    (IsFunctionProgram /\ Executed) =>
        /\ \A j \in 0..(FunctionNlocals - 1) : Read(cpu_ram, EntrySP + j) = 0
        /\ RamSP = EntrySP + FunctionNlocals
        /\ (FunctionNlocals = 0 /\ ~EnteredByCall) => OnlyChanged({})

(***************************************************************************)
(* Classes with control flow and subroutine calls.                         *)
(*                                                                         *)
(*   class Foo { field Bar x; static Baz s;                                *)
(*     function|method void f(Bar p) { var Bar a; var Qux s; <body> }      *)
(*     method void bar() { <body> } }                                      *)
(*                                                                         *)
(* A source is written as its words; each word becomes the token the       *)
(* tokeniser yields for it.                                                *)
(***************************************************************************)
FlowKeywords ==
    { "class", "field", "static", "function", "method", "constructor", "void",
      "int", "var", "let", "do", "return", "if", "else", "while", "true", "false",
      "null", "this" }

FlowSymbols == { "{", "}", "(", ")", "[", "]", ".", ",", ";", "=", "+", "-", "~", "<" }

FlowIntegers == { "0", "1", "2", "3" }

Lex(word) ==
    IF word \in FlowKeywords THEN Keyword(word)
    ELSE IF word \in FlowSymbols THEN Symbol(word)
    ELSE IF word \in FlowIntegers THEN IntegerConstant(word)
    ELSE Identifier(word)

Words(ws) == [i \in 1..Len(ws) |-> Lex(ws[i])]

\* n statements in sequence, in turn
\*   if (true) { while (false) { } } else { if (false) { } }
\*   while (true) { if (false) { } else { } }
RECURSIVE NestedFlow(_)
NestedFlow(n) ==
    IF n = 0 THEN <<>>
    ELSE NestedFlow(n - 1)
         \o (IF n % 2 = 1
             THEN << "if", "(", "true", ")", "{",
                         "while", "(", "false", ")", "{", "}",
                     "}", "else", "{",
                         "if", "(", "false", ")", "{", "}",
                     "}" >>
             ELSE << "while", "(", "true", ")", "{",
                         "if", "(", "false", ")", "{", "}", "else", "{", "}",
                     "}" >>)

\* n statements in sequence, in turn  while (true) { }  and  if (false) { }
RECURSIVE SequencedFlow(_)
SequencedFlow(n) ==
    IF n = 0 THEN <<>>
    ELSE SequencedFlow(n - 1)
         \o (IF n % 2 = 1
             THEN << "while", "(", "true", ")", "{", "}" >>
             ELSE << "if", "(", "false", ")", "{", "}" >>)

FlowBodies ==
    { << "return", ";" >>,
      << "return", "baz", "(", ")", ";" >>,
      << "do", "x", ".", "m", "(", "1", ",", "2", ")", ";", "return", ";" >>,
      << "do", "s", ".", "m", "(", "x", ")", ";",
         "do", "a", ".", "m", "(", ")", ";", "return", ";" >>,
      << "do", "p", ".", "m", "(", "3", ")", ";",
         "do", "Out", ".", "q", "(", ")", ";", "return", "x", ";" >>,
      << "do", "Out", ".", "p", "(", "g", "(", ")", ")", ";", "return", ";" >>,
      << "if", "(", "baz", "(", ")", ")", "{", "do", "x", ".", "m", "(", ")", ";",
         "}", "return", ";" >> }
    \cup { NestedFlow(n) \o << "return", ";" >> : n \in 1..MaxFields }
    \cup { SequencedFlow(n) \o << "return", ";" >> : n \in 2..MaxVars }

FlowClass(subtype, body, second) ==
    << "class", "Foo", "{", "field", "Bar", "x", ";", "static", "Baz", "s", ";",
       subtype, "void", "f", "(", "Bar", "p", ")", "{",
       "var", "Bar", "a", ";", "var", "Qux", "s", ";" >>
    \o body
    \o << "}", "method", "void", "bar", "(", ")", "{" >>
    \o second
    \o << "}", "}" >>

FlowSources ==
    { Words(FlowClass(subtype, body, second)) :
        subtype \in {"function", "method"}, body \in FlowBodies, second \in FlowBodies }

FlowInit ==
    /\ jk_tokens \in FlowSources
    /\ jk_pc = "class"
    /\ jk_pos = 0 /\ jk_out = <<>>
    /\ jk_class_name = ""
    /\ jk_class_symbols = SymbolTable
    /\ jk_subroutine_symbols = SymbolTable
    /\ jk_label_counter = 0
    /\ AsmIdle /\ VmIdle /\ CpuIdle /\ TokIdle

SpecFlow == FlowInit /\ [][JackNext]_vars

(***************************************************************************)
(* Claims about the labels and the calls the compiler emits.               *)
(***************************************************************************)
\* The command written on line i of the output.
OpAt(i) == jk_out[i].op

JumpLines ==
    { i \in DOMAIN jk_out :
        StartsWith(OpAt(i), "goto ") \/ StartsWith(OpAt(i), "if-goto ") }

LabelLines == { i \in DOMAIN jk_out : StartsWith(OpAt(i), "label ") }

\* The label a jump on line i names.
JumpTarget(i) ==
    IF StartsWith(OpAt(i), "goto ")
    THEN SubSeq(OpAt(i), 6, Len(OpAt(i)))
    ELSE SubSeq(OpAt(i), 9, Len(OpAt(i)))

\* The label a label command on line i defines.
LabelName(i) == SubSeq(OpAt(i), 7, Len(OpAt(i)))

\* The line of the function command that line i lies in, 0 before the first.
FunctionOf(i) ==
    LET before == { j \in 1..i : StartsWith(OpAt(j), "function ") }
    IN  IF before = {} THEN 0
        ELSE CHOOSE j \in before : \A k \in before : k <= j

\* The lines on which the command op is written.
LinesOf(op) == { i \in DOMAIN jk_out : OpAt(i) = op }

\* The four commands are written once each, in this order.
InOrder(first, second, third, fourth) ==
    /\ Cardinality(LinesOf(first)) = 1 /\ Cardinality(LinesOf(second)) = 1
    /\ Cardinality(LinesOf(third)) = 1 /\ Cardinality(LinesOf(fourth)) = 1
    /\ \E a \in LinesOf(first), b \in LinesOf(second),
          c \in LinesOf(third), d \in LinesOf(fourth) : a < b /\ b < c /\ c < d

\* The label of counter value c with the given suffix, in class Foo.
CounterLabel(c, suffix) == jk_class_name \o ".L" \o ToString(c) \o "." \o suffix

IfShape(c) ==
    InOrder("if-goto " \o CounterLabel(c, "ELSE"),
            "goto " \o CounterLabel(c, "ENDIF"),
            "label " \o CounterLabel(c, "ELSE"),
            "label " \o CounterLabel(c, "ENDIF"))

WhileShape(c) ==
    InOrder("label " \o CounterLabel(c, "WHILE"),
            "if-goto " \o CounterLabel(c, "ENDWHILE"),
            "goto " \o CounterLabel(c, "WHILE"),
            "label " \o CounterLabel(c, "ENDWHILE"))

\* The if and while keywords among the tokens consumed so far, in order.
FlowStatements ==
    SelectSeq(SubSeq(jk_tokens, 1, jk_pos),
              LAMBDA t : t.token_type = "keyword" /\ t.value \in {"if", "while"})

\* C19: in the output of a compilation that has not failed, every goto and
\* if-goto names a label defined by exactly one label command, which lies in
\* the same function as the jump; no label is defined twice; and the c-th if
\* or while statement of the class emits exactly its four commands
\*   if-goto ELSE, goto ENDIF, label ELSE, label ENDIF      for an if,
\*   label WHILE, if-goto ENDWHILE, goto WHILE, label ENDWHILE  for a while,
\* in this order, with the counter value c, and nothing else jumps or labels.
C19_LabelsMatched ==
    jk_pc # "error" =>
        /\ \A i \in JumpLines :
             /\ Cardinality({ l \in LabelLines : LabelName(l) = JumpTarget(i) }) = 1
             /\ \A l \in LabelLines :
                  LabelName(l) = JumpTarget(i) => FunctionOf(l) = FunctionOf(i)
        /\ \A l \in LabelLines, m \in LabelLines :
             LabelName(l) = LabelName(m) => l = m
        /\ jk_label_counter = Len(FlowStatements)
        /\ \A c \in 1..Len(FlowStatements) :
             IF FlowStatements[c].value = "if" THEN IfShape(c) ELSE WhileShape(c)
        /\ Cardinality(JumpLines) = 2 * jk_label_counter
        /\ Cardinality(LabelLines) = 2 * jk_label_counter

\* A class is compiled whose first subroutine nests a while in an if and an if
\* in a while, and whose second subroutine has labels of its own.
C19_Witness ==
    /\ jk_pc = "done"
    /\ jk_label_counter >= 5
    /\ \E a \in LinesOf("if-goto Foo.L1.ELSE"), b \in LinesOf("label Foo.L2.WHILE"),
          c \in LinesOf("label Foo.L2.ENDWHILE"), d \in LinesOf("goto Foo.L1.ENDIF") :
            a < b /\ b < c /\ c < d
    /\ \E a \in LinesOf("label Foo.L4.WHILE"), b \in LinesOf("if-goto Foo.L5.ELSE"),
          c \in LinesOf("label Foo.L5.ENDIF"), d \in LinesOf("goto Foo.L4.WHILE") :
            a < b /\ b < c /\ c < d
    /\ \E l \in LabelLines, m \in LabelLines :
          FunctionOf(l) # FunctionOf(m) /\ FunctionOf(l) > 0 /\ FunctionOf(m) > 0

\* The value and the type of the i-th token of the class, "" outside it.
WordAt(i) == IF i \in DOMAIN jk_tokens THEN jk_tokens[i].value ELSE ""

TypeAt(i) == IF i \in DOMAIN jk_tokens THEN jk_tokens[i].token_type ELSE ""

IsKeywordAt(i, words) == TypeAt(i) = "keyword" /\ WordAt(i) \in words

IsSymbolAt(i, word) == TypeAt(i) = "symbol" /\ WordAt(i) = word

\* The subroutine keyword of the subroutine that token i lies in, 0 before.
SubroutineAt(i) ==
    LET before == { j \in 1..i : IsKeywordAt(j, SUBROUTINE_TYPES) }
    IN  IF before = {} THEN 0
        ELSE CHOOSE j \in before : \A k \in before : k <= j

\* Token d is the name of a declaration `type name` whose type is a class.
IsDeclaration(d) == TypeAt(d) = "identifier" /\ TypeAt(d - 1) = "identifier"

\* The kind of the declaration at d, from the token before its type.
DeclaredKind(d) ==
    CASE WordAt(d - 2) = "field" -> "field"
      [] WordAt(d - 2) = "static" -> "static"
      [] WordAt(d - 2) = "var" -> "local"
      [] OTHER -> "argument"

\* The declarations in force at token i: those of its subroutine so far and
\* those of the class that the subroutine does not hide.
SubroutineDeclarations(i) ==
    { d \in SubroutineAt(i)..i : SubroutineAt(i) > 0 /\ IsDeclaration(d) }

ClassDeclarations ==
    { d \in DOMAIN jk_tokens : SubroutineAt(d) = 0 /\ IsDeclaration(d) }

DeclarationOf(i, name) ==
    IF \E d \in SubroutineDeclarations(i) : WordAt(d) = name
    THEN CHOOSE d \in SubroutineDeclarations(i) : WordAt(d) = name
    ELSE IF \E d \in ClassDeclarations : WordAt(d) = name
    THEN CHOOSE d \in ClassDeclarations : WordAt(d) = name
    ELSE 0

\* The index of the declaration at d: the declarations of its kind before it
\* in its table, after the receiver of a method for an argument.
DeclaredIndex(d) ==
    Cardinality({ e \in 1..(d - 1) :
        /\ IsDeclaration(e)
        /\ SubroutineAt(e) = SubroutineAt(d)
        /\ DeclaredKind(e) = DeclaredKind(d) })
    + (IF DeclaredKind(d) = "argument" /\ WordAt(SubroutineAt(d)) = "method"
       THEN 1 ELSE 0)

\* `push segment index` of the variable declared at d.
DeclaredPush(d) ==
    "push " \o (IF DeclaredKind(d) = "field" THEN "this" ELSE DeclaredKind(d))
    \o " " \o ToString(DeclaredIndex(d))

\* The parentheses of tokens from..to are balanced.
Balanced(from, to) ==
    Cardinality({ k \in from..to : IsSymbolAt(k, "(") })
    = Cardinality({ k \in from..to : IsSymbolAt(k, ")") })

\* The '(' that the ')' at token i closes.
OpenOf(i) ==
    CHOOSE j \in 1..(i - 1) :
        /\ IsSymbolAt(j, "(") /\ Balanced(j + 1, i - 1)
        /\ \A k \in (j + 1)..(i - 1) :
             IsSymbolAt(k, "(") => ~Balanced(k + 1, i - 1)

\* Token j is the '(' of a subroutine call: it follows a name that is not the
\* name of the subroutine being declared.
IsCallOpen(j) ==
    /\ IsSymbolAt(j, "(") /\ TypeAt(j - 1) = "identifier"
    /\ ~IsKeywordAt(j - 2, {"void"})

\* m: the argument expressions between the '(' at j and the ')' at i.
ArgumentCount(j, i) ==
    IF i = j + 1 THEN 0
    ELSE 1 + Cardinality({ k \in (j + 1)..(i - 1) :
                 IsSymbolAt(k, ",") /\ Balanced(j + 1, k) })

\* The call command of the call whose '(' is at j and whose ')' is at i.
CallCommand(j, i) ==
    IF IsSymbolAt(j - 2, ".")
    THEN IF DeclarationOf(j, WordAt(j - 3)) # 0
         THEN "call " \o WordAt(DeclarationOf(j, WordAt(j - 3)) - 1) \o "."
              \o WordAt(j - 1) \o " " \o ToString(ArgumentCount(j, i) + 1)
         ELSE "call " \o WordAt(j - 3) \o "." \o WordAt(j - 1) \o " "
              \o ToString(ArgumentCount(j, i))
    ELSE "call " \o WordAt(2) \o "." \o WordAt(j - 1) \o " "
         \o ToString(ArgumentCount(j, i) + 1)

\* The locals of the subroutine whose keyword is at s.
LocalsOf(s) ==
    Cardinality({ d \in DOMAIN jk_tokens :
        IsDeclaration(d) /\ SubroutineAt(d) = s /\ DeclaredKind(d) = "local" })

\* The push and call commands that are due when token i is consumed.
CommandsAt(i) ==
    IF IsKeywordAt(i, SUBROUTINE_TYPES)
    THEN [k \in 1..LocalsOf(i) |-> "push constant 0"]
         \o (IF WordAt(i) = "method" THEN << "push argument 0" >> ELSE <<>>)
    ELSE IF IsKeywordAt(i, {"true"}) THEN << "push constant 1" >>
    ELSE IF IsKeywordAt(i, {"false", "null"}) THEN << "push constant 0" >>
    ELSE IF IsKeywordAt(i, {"return"}) /\ IsSymbolAt(i + 1, ";")
    THEN << "push constant 0" >>
    ELSE IF TypeAt(i) = "integerConstant" THEN << "push constant " \o WordAt(i) >>
    ELSE IF IsSymbolAt(i, ")") /\ IsCallOpen(OpenOf(i))
    THEN << CallCommand(OpenOf(i), i) >>
    ELSE IF TypeAt(i) # "identifier" \/ SubroutineAt(i) = 0 \/ IsDeclaration(i)
            \/ TypeAt(i + 1) = "identifier" \/ IsSymbolAt(i - 1, ".")
            \/ IsKeywordAt(i - 1, {"void"})
    THEN <<>>
    ELSE IF IsSymbolAt(i + 1, "(") THEN << "push pointer 0" >>
    ELSE IF DeclarationOf(i, WordAt(i)) # 0
    THEN << DeclaredPush(DeclarationOf(i, WordAt(i))) >>
    ELSE <<>>

RECURSIVE CommandsUpTo(_)
CommandsUpTo(i) == IF i = 0 THEN <<>> ELSE CommandsUpTo(i - 1) \o CommandsAt(i)

\* The push and call commands of the output, in order.
PushesAndCalls ==
    LET ops == [i \in DOMAIN jk_out |-> OpAt(i)]
    IN  SelectSeq(ops, LAMBDA op : StartsWith(op, "push ") \/ StartsWith(op, "call "))

\* C20: in the output of a compilation that has not failed, the pushes and
\* calls are those of the tokens consumed, in token order: the receiver of a
\* call is pushed where its name stands (push pointer 0 for f(...), the push of
\* X for X.f(...) with X in a symbol table, nothing for X in neither table), the
\* code of the m arguments follows, and `call C.f n` is written at the closing
\* parenthesis, with C the current class and n = m + 1, or C the declared type
\* of X and n = m + 1, or C = X and n = m.
C20_CallReceiverAndCount ==
    jk_pc # "error" => PushesAndCalls = CommandsUpTo(jk_pos)

\* Class Foo is compiled with `return baz();` in one subroutine and calls on a
\* static variable and on an undeclared name in the other.
C20_Witness ==
    /\ jk_pc = "done"
    /\ \E i \in DOMAIN jk_out :
         /\ jk_out[i] = Noted("push pointer 0", "this")
         /\ i + 1 \in DOMAIN jk_out /\ jk_out[i + 1] = Code("call Foo.baz 1")
    /\ \E i \in DOMAIN jk_out :
         /\ jk_out[i] = Noted("push static 0", "s")
         /\ i + 2 \in DOMAIN jk_out
         /\ jk_out[i + 1] = Noted("push this 0", "x")
         /\ jk_out[i + 2] = Code("call Baz.m 2")
    /\ \E i \in DOMAIN jk_out : jk_out[i] = Code("call a.m 0")

(***************************************************************************)
(* Classes that declare: class variables, parameters and locals, in every  *)
(* kind, with names that repeat within a table or across the two tables.   *)
(***************************************************************************)
ParamNames == << "p", "q", "r", "t" >>

\* n class variable declarations `kind int name ;`, the kinds as the pattern
\* says; the last name repeats the first when repeat is set.
RECURSIVE ClassVarWords(_, _, _, _)
ClassVarWords(n, of, pattern, repeat) ==
    IF n = 0 THEN <<>>
    ELSE ClassVarWords(n - 1, of, pattern, repeat)
         \o << IF pattern = "mixed"
               THEN (IF n % 2 = 1 THEN "static" ELSE "field")
               ELSE pattern,
               "int",
               IF repeat /\ n = of /\ n > 1 THEN FieldNames[1] ELSE FieldNames[n],
               ";" >>

\* The i-th of n names of a list: names[i], but for the variants
\*   "repeat"  the last name is the first name of the list,
\*   "param"   the last name is the first parameter's name,
\*   "field"   the first name is the first class variable's name.
ListedName(names, i, n, variant) ==
    IF variant = "repeat" /\ i = n /\ n > 1 THEN names[1]
    ELSE IF variant = "param" /\ i = n THEN ParamNames[1]
    ELSE IF variant = "field" /\ i = 1 THEN FieldNames[1]
    ELSE names[i]

\* int p, int q, ...
RECURSIVE ParameterWords(_, _, _)
ParameterWords(n, of, variant) ==
    IF n = 0 THEN <<>>
    ELSE ParameterWords(n - 1, of, variant)
         \o (IF n > 1 THEN << "," >> ELSE <<>>)
         \o << "int", ListedName(ParamNames, n, of, variant) >>

\* var int a, i, ...;
RECURSIVE LocalNameWords(_, _, _)
LocalNameWords(n, of, variant) ==
    IF n = 0 THEN <<>>
    ELSE LocalNameWords(n - 1, of, variant)
         \o (IF n > 1 THEN << "," >> ELSE <<>>)
         \o << ListedName(VarNames, n, of, variant) >>

LocalWords(n, variant) ==
    IF n = 0 THEN <<>>
    ELSE << "var", "int" >> \o LocalNameWords(n, n, variant) \o << ";" >>

\* class Foo { <class variables> <subtype> f(<parameters>) { <locals> return; }
\*             method void g(int p) { var int a; return; } }
DeclClass(classvars, subtype, params, locals) ==
    << "class", "Foo", "{" >> \o classvars
    \o << subtype, IF subtype = "constructor" THEN "Foo" ELSE "void", "f", "(" >>
    \o params \o << ")", "{" >> \o locals \o << "return", ";", "}" >>
    \o << "method", "void", "g", "(", "int", "p", ")", "{",
          "var", "int", "a", ";", "return", ";", "}", "}" >>

DeclSources ==
    { Words(DeclClass(ClassVarWords(nc, nc, pattern, repeat), subtype,
                      ParameterWords(np, np, pv), LocalWords(nl, lv))) :
        nc \in 0..MaxFields, pattern \in {"field", "static", "mixed"},
        repeat \in BOOLEAN, subtype \in SUBROUTINE_TYPES,
        np \in 0..MaxArgs, pv \in {"plain", "repeat", "field"},
        nl \in 0..MaxLocals, lv \in {"plain", "repeat", "param", "field"} }

DeclInit ==
    /\ jk_tokens \in DeclSources
    /\ jk_pc = "class"
    /\ jk_pos = 0 /\ jk_out = <<>>
    /\ jk_class_name = ""
    /\ jk_class_symbols = SymbolTable
    /\ jk_subroutine_symbols = SymbolTable
    /\ jk_label_counter = 0
    /\ AsmIdle /\ VmIdle /\ CpuIdle /\ TokIdle

SpecDecl == DeclInit /\ [][JackNext]_vars

(***************************************************************************)
(* Claims about the symbol tables.                                         *)
(***************************************************************************)
\* Token d is a name being declared: it ends a `type name` or follows the
\* comma of a list of names, and a comma, a semicolon or the end of the
\* parameter list follows it.
DeclaresName(d) ==
    /\ TypeAt(d) = "identifier"
    /\ IsSymbolAt(d + 1, ",") \/ IsSymbolAt(d + 1, ";") \/ IsSymbolAt(d + 1, ")")
    /\ \/ IsKeywordAt(d - 1, PRIMITIVE_TYPES)
       \/ TypeAt(d - 1) = "identifier"
       \/ IsSymbolAt(d - 1, ",")

\* What opens the declaration that token d is part of: field, static, var or
\* the parenthesis of the parameter list.
OpenerOf(d) ==
    LET before == { j \in 1..d : \/ IsKeywordAt(j, {"field", "static", "var"})
                                 \/ IsSymbolAt(j, "(") }
    IN  WordAt(CHOOSE j \in before : \A k \in before : k <= j)

KindOf(d) ==
    CASE OpenerOf(d) = "var" -> "local"
      [] OpenerOf(d) = "(" -> "argument"
      [] OTHER -> OpenerOf(d)

\* The name at d is declared already in its table when d is reached.
IsRepeated(d) ==
    \E e \in 1..(d - 1) :
        DeclaresName(e) /\ SubroutineAt(e) = SubroutineAt(d) /\ WordAt(e) = WordAt(d)

\* The declarations made so far in the scope of subroutine keyword s (0 for
\* the class), a repeated name being refused.
DeclaredIn(s) ==
    { d \in 1..jk_pos : DeclaresName(d) /\ SubroutineAt(d) = s /\ ~IsRepeated(d) }

\* The subroutine being compiled, or compiled last; 0 before the first.
CurrentSubroutine == SubroutineAt(jk_pos)

\* The symbols of a kind in a table.
SymbolsOf(table, kind) ==
    { n \in DOMAIN table.symbols : table.symbols[n].kind = kind }

\* The symbols of each kind are numbered 0, 1, 2, ... without gap or repeat,
\* and the count of the kind is their number.
Numbered(table) ==
    \A kind \in Kinds :
        /\ get_count(table, kind) = Cardinality(SymbolsOf(table, kind))
        /\ { table.symbols[n].index : n \in SymbolsOf(table, kind) }
             = 0..(get_count(table, kind) - 1)

\* The table holds the names declared in scope s (and `this` when it may),
\* each with its kind, and numbers names of one kind in declaration order.
Holds(table, s, implicit) ==
    /\ DOMAIN table.symbols = { WordAt(d) : d \in DeclaredIn(s) } \cup implicit
    /\ \A d \in DeclaredIn(s) : table.symbols[WordAt(d)].kind = KindOf(d)
    /\ \A d \in DeclaredIn(s), e \in DeclaredIn(s) :
         d < e /\ KindOf(d) = KindOf(e)
            => table.symbols[WordAt(d)].index < table.symbols[WordAt(e)].index

\* `this`, in the table of a method.
ImplicitNames(s) == IF WordAt(s) = "method" THEN {"this"} ELSE {}

\* C21: while a class compiles without error, each table numbers the
\* symbols of each kind 0, 1, 2, ... in declaration order without gap or
\* repeat and counts them; the class table holds every class variable
\* declared so far with kind static or field; the subroutine table holds the
\* parameters and locals of the current subroutine only, so that its indices
\* restart at 0 with every subroutine.
C21_SymbolIndices ==
    jk_pc \in {"class_vars", "subroutines", "done"} =>
        /\ Numbered(jk_class_symbols) /\ Numbered(jk_subroutine_symbols)
        /\ Holds(jk_class_symbols, 0, {})
        /\ \A n \in DOMAIN jk_class_symbols.symbols :
             jk_class_symbols.symbols[n].kind \in {"static", "field"}
        /\ IF CurrentSubroutine = 0
           THEN jk_subroutine_symbols = SymbolTable
           ELSE /\ Holds(jk_subroutine_symbols, CurrentSubroutine,
                         ImplicitNames(CurrentSubroutine))
                /\ \A n \in DOMAIN jk_subroutine_symbols.symbols :
                     jk_subroutine_symbols.symbols[n].kind \in {"argument", "local"}

\* A class with statics and fields is compiled; its first subroutine had
\* several parameters and locals, one of them named as a field, and the table
\* of its second subroutine starts again at argument 1 (after this), local 0.
C21_Witness ==
    /\ jk_pc = "done"
    /\ get_count(jk_class_symbols, "static") >= 1
    /\ get_count(jk_class_symbols, "field") >= 1
    /\ Cardinality({ d \in DeclaredIn(SubroutineAt(4 * Cardinality(DeclaredIn(0)) + 4)) :
                       KindOf(d) = "local" }) >= 2
    /\ \E d \in 1..jk_pos : DeclaresName(d) /\ SubroutineAt(d) > 0
                            /\ WordAt(d) \in DOMAIN jk_class_symbols.symbols
    /\ jk_subroutine_symbols.symbols
         = ("this" :> [typ |-> "Foo", kind |-> "argument", index |-> 0])
           @@ ("p" :> [typ |-> "int", kind |-> "argument", index |-> 1])
           @@ ("a" :> [typ |-> "int", kind |-> "local", index |-> 0])

\* C22: a compilation of declarations fails exactly when a name is declared
\* that its own table holds already (a name of the class table declared in a
\* subroutine is no error), and then both tables are as they were before the
\* refused declaration: they hold the names declared before it, each with the
\* kind of its first declaration, and every kind still counts its symbols.
C22_DuplicateDeclaration ==
    /\ jk_pc = "error" =>
         /\ DeclaresName(jk_pos) /\ IsRepeated(jk_pos)
         /\ Numbered(jk_class_symbols) /\ Numbered(jk_subroutine_symbols)
         /\ Holds(jk_class_symbols, 0, {})
         /\ IF CurrentSubroutine = 0
            THEN jk_subroutine_symbols = SymbolTable
            ELSE Holds(jk_subroutine_symbols, CurrentSubroutine,
                       ImplicitNames(CurrentSubroutine))
    /\ jk_pc # "error" =>
         \A d \in 1..jk_pos : DeclaresName(d) => ~IsRepeated(d)

\* A local that repeats a local is refused, in a subroutine whose parameter x
\* was accepted although the class declares x too.
C22_Witness ==
    /\ jk_pc = "error"
    /\ KindOf(jk_pos) = "local" /\ IsRepeated(jk_pos)
    /\ "x" \in DOMAIN jk_class_symbols.symbols
    /\ "x" \in DOMAIN jk_subroutine_symbols.symbols
    /\ jk_subroutine_symbols.symbols["x"].kind = "argument"
    /\ get_count(jk_subroutine_symbols, "local") >= 1

\* The parameters declared so far in the subroutine of keyword s.
ParametersOf(s) == { d \in DeclaredIn(s) : KindOf(d) = "argument" }

\* The place of parameter d among the parameters of its subroutine, from 1.
PlaceOf(d) == 1 + Cardinality({ e \in ParametersOf(SubroutineAt(d)) : e < d })

\* C28: in a method the subroutine table holds `this`, of the type of the
\* class, as argument 0, and the j-th declared parameter is argument j; in a
\* function and in a constructor the table holds no `this` and the j-th
\* declared parameter is argument j - 1.
C28_ParametersAfterReceiver ==
    CurrentSubroutine > 0 =>
        IF WordAt(CurrentSubroutine) = "method"
        THEN /\ "this" \in DOMAIN jk_subroutine_symbols.symbols
             /\ jk_subroutine_symbols.symbols["this"]
                  = [typ |-> jk_class_name, kind |-> "argument", index |-> 0]
             /\ \A d \in ParametersOf(CurrentSubroutine) :
                  jk_subroutine_symbols.symbols[WordAt(d)].index = PlaceOf(d)
        ELSE /\ "this" \notin DOMAIN jk_subroutine_symbols.symbols
             /\ \A d \in ParametersOf(CurrentSubroutine) :
                  jk_subroutine_symbols.symbols[WordAt(d)].index = PlaceOf(d) - 1

\* A method with the parameters p and q has been compiled.
C28_Witness ==
    /\ jk_pc = "subroutines"
    /\ WordAt(CurrentSubroutine) = "method"
    /\ Cardinality(ParametersOf(CurrentSubroutine)) = 2
    /\ jk_subroutine_symbols.symbols["this"].index = 0
    /\ jk_subroutine_symbols.symbols["p"].index = 1
    /\ jk_subroutine_symbols.symbols["q"].index = 2

(***************************************************************************)
(* Jack buffers that end inside a block comment.                           *)
(***************************************************************************)
\* A block comment that is opened and never closed, with what follows it.
UnterminatedComments ==
    { TokItem("", <<>>, << "/", "*", "c" >> \o rest) :
        rest \in { <<>>, << "\n" >>, << "*" >>, << " ", ";", "\n" >>,
                   << "\n", "/", "*", "\n" >> } }

\* Fewer than MaxItems pieces and then the comment.
CommentInputs ==
    { items \o << comment >> :
        items \in { i \in TokInputs : Len(i) < MaxItems },
        comment \in UnterminatedComments }

CommentInit ==
    /\ tk_items \in CommentInputs
    /\ tk_buf = Concat(tk_items)
    /\ tk_pc = "has_next"
    /\ tk_index = 0 /\ tk_line = 0 /\ tk_position = 0
    /\ tk_tokens = <<>>
    /\ AsmIdle /\ VmIdle /\ CpuIdle /\ JackIdle

SpecComment == CommentInit /\ [][TokNext]_vars

\* The buffer has a block comment that is never closed.
HasUnterminatedComment ==
    tk_items # <<>> /\ tk_items[Len(tk_items)] \in UnterminatedComments

\* C23: generate() does not end normally on a buffer that has a block
\* comment which is never closed: it ends by raising an error.
C23_UnterminatedCommentFatal ==
    HasUnterminatedComment => tk_pc # "done"

(***************************************************************************)
(* Classes whose compilation fails: after a subroutine has been written,   *)
(* in the middle of a statement, or at the end of the class.               *)
(***************************************************************************)
SoundBodies ==
    { << "return", ";" >>,
      << "let", "x", "=", "1", ";", "return", ";" >>,
      << "do", "x", ".", "m", "(", ")", ";", "return", ";" >> }

FailingBodies ==
    { \* the target of let is not declared
      << "let", "y", "=", "1", ";", "return", ";" >>,
      \* the argument list is not closed
      << "do", "x", ".", "m", "(", "1", ";", "return", ";" >>,
      \* return without its semicolon
      << "return" >>,
      \* the block of if is not closed: the class runs out of tokens
      << "if", "(", "true", ")", "{", "return", ";" >> }

\* class Foo { field int x; <subtype> void f() { <body> } method void g() { <second> } }
FailingClass(subtype, body, second) ==
    << "class", "Foo", "{", "field", "int", "x", ";",
       subtype, "void", "f", "(", ")", "{" >> \o body
    \o << "}", "method", "void", "g", "(", ")", "{" >> \o second
    \o << "}", "}" >>

FailingSources ==
    { Words(FailingClass(subtype, body, second)) :
        subtype \in SUBROUTINE_TYPES,
        body \in SoundBodies \cup FailingBodies,
        second \in SoundBodies \cup FailingBodies }

FailInit ==
    /\ jk_tokens \in FailingSources
    /\ jk_pc = "class"
    /\ jk_pos = 0 /\ jk_out = <<>>
    /\ jk_class_name = ""
    /\ jk_class_symbols = SymbolTable
    /\ jk_subroutine_symbols = SymbolTable
    /\ jk_label_counter = 0
    /\ AsmIdle /\ VmIdle /\ CpuIdle /\ TokIdle

SpecFail == FailInit /\ [][JackNext]_vars

\* C24: when a compilation has failed, nothing has been written to its output.
C24_OutputOnlyOnSuccess ==
    jk_pc = "error" => jk_out = <<>>

(***************************************************************************)
(* Claims about comparisons, labels and jumps of the VM translator.        *)
(***************************************************************************)
\* x op y on the signed values of two words.
Compares(op, x, y) ==
    CASE op = "eq" -> Signed(x) = Signed(y)
      [] op = "lt" -> Signed(x) < Signed(y)
      [] op = "gt" -> Signed(x) > Signed(y)

\* C25: once the code of eq, lt or gt has been executed on x (pushed first)
\* and y, the word on top of the stack is 0xFFFF when x = y, x < y or x > y
\* holds of the signed values, and 0 when it does not.
C25_ComparisonCorrect ==
    (IsSingleCommand(DOMAIN COMPARISON_OPS) /\ Executed) =>
        Read(cpu_ram, StartSP - 2)
            = IF Compares(Program[1].command, StartX, StartY) THEN 65535 ELSE 0

\* The function commands of the input, as <<file, line>>.
FunctionCommands ==
    { fp \in (DOMAIN vm_infiles) \X (1..MaxVmLines) :
        /\ fp[2] \in DOMAIN vm_infiles[fp[1]].stream
        /\ vm_infiles[fp[1]].stream[fp[2]].command = "function" }

\* No function is defined twice in the files translated.
UniqueFunctionNames ==
    \A f \in FunctionCommands, g \in FunctionCommands :
        vm_infiles[f[1]].stream[f[2]].args[1] = vm_infiles[g[1]].stream[g[2]].args[1]
            => f = g

\* The lines of the output that define a label.
DefinitionLines == { i \in DOMAIN vm_outfile : vm_outfile[i].k = "L" }

\* C26: when files whose function names are unique have been translated
\* and written, no two lines of the output define the same label.
C26_LabelsDefinedOnce ==
    (vm_pc = "written" /\ UniqueFunctionNames) =>
        \A i \in DefinitionLines, j \in DefinitionLines :
            vm_outfile[i].x = vm_outfile[j].x => i = j

(***************************************************************************)
(* Claims about the code of statements and expressions.                    *)
(***************************************************************************)
\* The let statements consumed so far that assign to an array element.
ArrayLets ==
    { p \in 1..jk_pos :
        jk_tokens[p] = Keyword("let") /\ p + 2 <= Len(jk_tokens)
        /\ jk_tokens[p + 2] = Symbol("[") }

\* The base pushes of assignment targets: the address they complete is not
\* dereferenced at once, as that of an array read is.
TargetPushes == { q \in BasePushes : ~LineIs(q + 2, Code("pop pointer 1")) }

\* The lines where the four lines that store into an array element begin.
StoreLines ==
    { t \in 1..Len(jk_out) :
        /\ LineIs(t, Code("pop temp 0")) /\ LineIs(t + 1, Code("pop pointer 1"))
        /\ LineIs(t + 2, Code("push temp 0")) /\ LineIs(t + 3, Code("pop that 0")) }

\* The store that belongs to the target pushed on line q: the next one.
StoreOf(q) ==
    LET after == { t \in StoreLines : q < t }
    IN  IF after = {} THEN 0 ELSE CHOOSE t \in after : \A u \in after : t <= u

\* C27: in the output of a compilation that has not failed, every `let
\* a[e] = rhs;` has its target address completed by the push of the base
\* and `add`, then at least one line of rhs code, then pop temp 0, pop
\* pointer 1, push temp 0, pop that 0; between `add` and these four lines
\* there is no other target and no pop pointer 1 except that of an array read
\* (directly followed by push that 0); pop that 0 is written by these four
\* lines only.
C27_ArrayWriteOrder ==
    jk_pc # "error" =>
        /\ Cardinality(TargetPushes) = Cardinality(ArrayLets)
        /\ Cardinality(StoreLines) = Cardinality(ArrayLets)
        /\ \A q \in TargetPushes :
             /\ LineIs(q + 1, Code("add"))
             /\ StoreOf(q) > q + 2
             /\ \A r \in (q + 2)..(StoreOf(q) - 1) :
                  /\ r \notin TargetPushes
                  /\ jk_out[r].op = "pop pointer 1" =>
                       (r + 1 < StoreOf(q) /\ LineIs(r + 1, Code("push that 0")))
                  /\ jk_out[r].op # "pop that 0"
        /\ \A r \in 1..Len(jk_out) :
             jk_out[r].op = "pop that 0" => (r - 3) \in StoreLines

\* `let a[i] = a[j];` has been compiled: the read of a[j] sets pointer 1
\* between the target's add and the store.
C27_Witness ==
    /\ jk_pc = "done"
    /\ IsArrayExample
    /\ \E q \in TargetPushes :
         /\ StoreOf(q) = q + 7
         /\ LineIs(q + 5, Code("pop pointer 1"))
         /\ LineIs(q + 6, Code("push that 0"))

(***************************************************************************)
(* Running translated code: jumps to labels, in and across functions.      *)
(***************************************************************************)
JumpCommands == {"goto", "if-goto"}

\* <jump> END / push constant 7 / label END / push constant 9: the jump
\* skips the push of 7 when it is taken.
JumpOver(jump) ==
    << VmLine(jump, << NameEND >>), Push("constant", 7),
       VmLine("label", << NameEND >>), Push("constant", 9) >>

\* function name 0 / label END / push constant 8: the same label in
\* another function.
OtherFunction(name) ==
    << VmLine("function", << name, <<"0">> >>), VmLine("label", << NameEND >>),
       Push("constant", 8) >>

\* The jump before any function, inside a function, and with the same label
\* in a function after or before the function of the jump.
JumpPrograms(jump) ==
    { JumpOver(jump),
      << VmLine("function", << NameF, <<"0">> >>) >> \o JumpOver(jump),
      JumpOver(jump) \o OtherFunction(NameG),
      << VmLine("function", << NameF, <<"0">> >>) >> \o JumpOver(jump)
          \o OtherFunction(NameG),
      OtherFunction(NameG) \o << VmLine("function", << NameF, <<"0">> >>) >>
          \o JumpOver(jump) }

\* SP = 257 with the value v on top of the stack.
OneOnStack(v) == (0 :> 257) @@ (1 :> 300) @@ (256 :> v) @@ (257 :> 99) @@ (258 :> 99)

JumpScenarios ==
    { Scenario(program, OneOnStack(v)) :
        program \in JumpPrograms("goto") \cup JumpPrograms("if-goto"),
        v \in StackValues }

LabelInit ==
    /\ \E sc \in JumpScenarios :
          /\ vm_infiles = << VmFile(<<"M">>, sc.program) >>
          /\ cpu_ram = sc.ram
          /\ cpu_start = sc.ram
    /\ vm_args = [isdir |-> FALSE, no_bootstrap |-> TRUE]
    /\ vm_pc = "start"
    /\ vm_file = 1 /\ vm_result = <<>> /\ vm_outfile = <<>>
    /\ tr_module = <<>> /\ tr_pos = 1 /\ tr_linenum = 1
    /\ tr_function = <<>> /\ tr_calls = 0 /\ tr_result = <<>>
    /\ cpu_pc = "ready" /\ cpu_rom = <<>>
    /\ cpu_A = 0 /\ cpu_D = 0 /\ cpu_PC = 0
    /\ AsmIdle /\ JackIdle /\ TokIdle

SpecLabel == LabelInit /\ [][VMNext]_vars

\* The label command that a jump on line p of the program names: the one of
\* the same name in the same function.
TargetLine(p) ==
    CHOOSE q \in 1..Len(Program) :
        /\ Program[q].command = "label"
        /\ Program[q].args[1] = Program[p].args[1]
        /\ EnclosingFunction(Program, q) = EnclosingFunction(Program, p)

\* The stack the VM commands from line p on leave, begun with `stack`.
RECURSIVE StackAfter(_, _)
StackAfter(p, stack) ==
    IF p > Len(Program) THEN stack
    ELSE CASE Program[p].command = "push" ->
                StackAfter(p + 1, Append(stack, ParseInt(Program[p].args[2])))
           [] Program[p].command = "goto" -> StackAfter(TargetLine(p), stack)
           [] Program[p].command = "if-goto" ->
                StackAfter(IF stack[Len(stack)] # 0 THEN TargetLine(p) ELSE p + 1,
                           SubSeq(stack, 1, Len(stack) - 1))
           [] OTHER -> StackAfter(p + 1, stack)

\* The stack of the machine: the cells from 256 up to SP.
MachineStack == [i \in 1..(RamSP - 256) |-> Read(cpu_ram, 255 + i)]

\* The line translated last, and the name it is scoped with.
TranslatedLine == Program[tr_pos - 1]

ScopedName ==
    EnclosingFunction(Program, tr_pos - 1) \o <<"$">> \o TranslatedLine.args[1]

\* The last n lines of what the translator has emitted.
LastEmitted(n) == SubSeq(tr_result, Len(tr_result) - n + 1, Len(tr_result))

\* C29: in function F, `label L` is translated to the definition (F$L),
\* `goto L` to a jump to F$L and `if-goto L` to a pop of the stack and a jump
\* to F$L if the popped word is not 0; and once the translated program has
\* been executed the machine's stack is the one the VM commands leave when
\* every jump goes to the label of its name in its own function.
C29_LabelScoping ==
    /\ (vm_pc = "translate" /\ tr_pos > 1 /\ TranslatedLine.command = "label") =>
          LastEmitted(1) = << LabelLine(ScopedName) >>
    /\ (vm_pc = "translate" /\ tr_pos > 1 /\ TranslatedLine.command = "goto") =>
          LastEmitted(2) = << AInstr(ScopedName), CInstr("", "0", "JMP") >>
    /\ (vm_pc = "translate" /\ tr_pos > 1 /\ TranslatedLine.command = "if-goto") =>
          LastEmitted(5) = << AInstr(SymSP), CInstr("AM", "M-1", ""),
                              CInstr("D", "M", ""), AInstr(ScopedName),
                              CInstr("", "D", "JNE") >>
    /\ Executed => MachineStack = StackAfter(1, << Read(cpu_start, 256) >>)
    /\ RamSP <= 260

C29_Witness ==
    /\ Executed
    /\ \E p \in 1..Len(Program) :
          /\ Program[p].command = "if-goto"
          /\ EnclosingFunction(Program, p) = NameF
          /\ \E q \in 1..Len(Program) :
                /\ Program[q].command = "label"
                /\ EnclosingFunction(Program, q) = NameG
                /\ q < p
    /\ Read(cpu_start, 256) # 0
    /\ MachineStack = << 8, 9 >>

(***************************************************************************)
(* Classes whose statements use every form of expression.                  *)
(*                                                                         *)
(*   class Foo { field int x;                                              *)
(*     function|method|constructor void f(int j) {                         *)
(*       var Array v; var int i; <statement> <return> } }                  *)
(***************************************************************************)
StringWords == { "hi", "a" }

BalanceLex(word) ==
    IF word \in StringWords THEN StringConstant(word)
    ELSE IF word \in DOMAIN OPERATORS THEN Symbol(word)
    ELSE Lex(word)

BalanceWords(ws) == [i \in 1..Len(ws) |-> BalanceLex(ws[i])]

BalanceStatements ==
    { <<>>,
      << "let", "i", "=", "1", "-", "2", "-", "3", ";" >>,
      << "let", "i", "=", "~", "(", "-", "i", ")", ";" >>,
      << "let", "i", "=", "v", "[", "i", "+", "1", "]", "+",
         "f", "(", "2", ",", "x", ")", "*", "3", ";" >>,
      << "let", "v", "[", "i", "]", "=", "v", "[", "j", "]", "/", "2", ";" >>,
      << "do", "Out", ".", "p", "(", "hi", ",", "-", "1", ")", ";" >>,
      << "if", "(", "i", "<", "2", ")", "{",
             "while", "(", "~", "i", ")", "{",
                 "let", "i", "=", "i", "-", "1", ";", "}",
         "}", "else", "{", "do", "f", "(", ")", ";", "return", "i", ";", "}" >>,
      << "while", "(", "true", ")", "{",
             "if", "(", "x", "=", "j", ")", "{", "return", "this", ";", "}",
             "let", "v", "[", "0", "]", "=", "null", ";",
         "}" >>,
      << "let", "i", "=", "(", "1", "+", "2", ")", "&",
         "(", "i", ">", "(", "3", "|", "j", ")", ")", ";" >>,
      << "do", "v", ".", "m", "(", "a", ",", "v", "[", "0", "]", ",", "false", ")",
         ";" >> }

BalanceReturns == { << "return", ";" >>, << "return", "-", "x", ";" >> }

BalanceClass(subtype, statement, return) ==
    << "class", "Foo", "{", "field", "int", "x", ";",
       subtype, "void", "f", "(", "int", "j", ")", "{",
       "var", "Array", "v", ";", "var", "int", "i", ";" >>
    \o statement \o return \o << "}", "}" >>

BalanceSources ==
    { BalanceWords(BalanceClass(subtype, statement, return)) :
        subtype \in SUBROUTINE_TYPES, statement \in BalanceStatements,
        return \in BalanceReturns }

BalanceInit ==
    /\ jk_tokens \in BalanceSources
    /\ jk_pc = "class"
    /\ jk_pos = 0 /\ jk_out = <<>>
    /\ jk_class_name = ""
    /\ jk_class_symbols = SymbolTable
    /\ jk_subroutine_symbols = SymbolTable
    /\ jk_label_counter = 0
    /\ AsmIdle /\ VmIdle /\ CpuIdle /\ TokIdle

SpecBalance == BalanceInit /\ [][JackNext]_vars

(***************************************************************************)
(* The depth of the stack along the emitted VM commands.                   *)
(***************************************************************************)
BinaryCommands == { "add", "sub", "and", "or", "eq", "lt", "gt" }

UnaryCommands == { "neg", "not" }

\* n of `call f n`, for n below 10
CallArity(op) ==
    CHOOSE n \in 0..9 : ToString(n) = SubSeq(op, Len(op), Len(op))

\* The number of values a command takes off the stack ...
Takes(op) ==
    IF op \in BinaryCommands THEN 2
    ELSE IF op \in UnaryCommands \/ op = "return" THEN 1
    ELSE IF StartsWith(op, "pop ") \/ StartsWith(op, "if-goto ") THEN 1
    ELSE IF StartsWith(op, "call ") THEN CallArity(op)
    ELSE 0

\* ... and the number it puts on it.
Puts(op) ==
    IF op \in BinaryCommands \cup UnaryCommands THEN 1
    ELSE IF StartsWith(op, "push ") \/ StartsWith(op, "call ") THEN 1
    ELSE 0

\* The depth of the stack after line i of the output, counted from the
\* `function` line before it.
RECURSIVE DepthAfter(_)
DepthAfter(i) ==
    IF i = 0 \/ StartsWith(OpAt(i), "function ") THEN 0
    ELSE DepthAfter(i - 1) - Takes(OpAt(i)) + Puts(OpAt(i))

\* The pops that end a let or a do statement, or set up this.
ClosingPops ==
    { i \in DOMAIN jk_out :
        /\ StartsWith(OpAt(i), "pop ")
        /\ OpAt(i) # "pop pointer 1"
        /\ ~(OpAt(i) = "pop temp 0" /\ jk_out[i].note = "") }

\* The tokens from position p on are the words ws.
WordsAt(p, ws) ==
    /\ p + Len(ws) - 1 <= Len(jk_tokens)
    /\ \A k \in 1..Len(ws) : jk_tokens[p + k - 1] = BalanceLex(ws[k])

\* The commands ops are in the output, one after the other.
Emitted(ops) ==
    \E i \in 0..(Len(jk_out) - Len(ops)) :
        \A k \in 1..Len(ops) : OpAt(i + k) = ops[k]

\* C30: along the emitted code no command takes more values than the stack
\* of its function holds; a return is reached with exactly one value, a
\* conditional jump with exactly one (the value of the condition); the
\* stack is empty at every label, after every goto and after the pop that
\* ends a let or a do; the pop of a do follows the call whose result it
\* discards; and 1 - 2 - 3 is computed from left to right.
C30_StackBalanced ==
    /\ \A i \in DOMAIN jk_out :
          /\ DepthAfter(i - 1) >= Takes(OpAt(i))
          /\ OpAt(i) = "return" => DepthAfter(i - 1) = 1
          /\ StartsWith(OpAt(i), "if-goto ") => DepthAfter(i - 1) = 1
          /\ (StartsWith(OpAt(i), "goto ") \/ StartsWith(OpAt(i), "label ")) =>
                DepthAfter(i) = 0
          /\ i \in ClosingPops => DepthAfter(i) = 0
          /\ jk_out[i].note = "discard void return" =>
                /\ OpAt(i) = "pop temp 0"
                /\ StartsWith(OpAt(i - 1), "call ")
          /\ jk_out[i].note = "void return" =>
                /\ OpAt(i) = "push constant 0"
                /\ DepthAfter(i - 1) = 0
    /\ \A p \in 1..jk_pos :
          (WordsAt(p, << "=", "1", "-", "2", "-", "3", ";" >>) /\ p + 6 <= jk_pos) =>
              Emitted(<< "push constant 1", "push constant 2", "sub",
                         "push constant 3", "sub", "pop local 1" >>)

\* C30 witness: a compiled class with a while in an if, a return in the
\* else branch, a do and a let, whose code reaches depth 2.
C30_Witness ==
    /\ jk_pc = "done"
    /\ \E p \in 1..Len(jk_tokens) :
          WordsAt(p, << "if", "(", "i", "<", "2", ")", "{", "while" >>)
    /\ \E i \in DOMAIN jk_out : jk_out[i].note = "discard void return"
    /\ \E i \in DOMAIN jk_out : DepthAfter(i) = 2
    /\ Cardinality(LinesOf("return")) = 2

====
